---- MODULE Spec2Model ----
(***************************************************************************)
(* Voice session router (backend index.ts) with its three agent adapters   *)
(* (OpenAIV2VAgent, OpenAISTTAgent, ElevenLabsAgent).                      *)
(*                                                                         *)
(* One client session is modelled: sessions share no mutable state.  A     *)
(* step is what Node runs without yielding to the event loop: the          *)
(* synchronous part of an event handler together with the promise          *)
(* continuations (microtasks) it makes runnable.  Network results, socket  *)
(* events and timers are the environment's steps.                          *)
(***************************************************************************)
EXTENDS Integers, Sequences, FiniteSets, TLC

\* ---------------------------------------------------------------- bounds
\* the work of one session: the messages (control messages and binary audio
\* frames) the client sends plus the connect() attempts that reach the
\* network
MaxWork == 5
\* tokens the generation stream of a turn is split into
MaxTokens == 2
\* idle-timer firings of the decomposed adapter that find buffered audio
MaxTurns == 2
\* reads of one synthesis response stream that return data
MaxReads == 2
MaxDeliveries == 3
MaxSessions == 2
MaxOps == 4
MaxPings == 2

\* ---------------------------------------------------------- program data
V2V == "openai-v2v"
STT == "openai-stt"
EL == "elevenlabs"

AgentType == {V2V, STT, EL}

AgentStatus == {"disconnected", "connecting", "connected", "error"}

\* the literal of the toggle-dual branch
DualAgents == <<V2V, EL>>

getAgentSampleRate(agentType) ==
    IF agentType = EL THEN 16000 ELSE 24000

Range(s) == {s[i] : i \in DOMAIN s}

Zero == [a \in AgentType |-> 0]

VARIABLES
    \* SessionState
    mode, activeAgents, primaryAgent, sampleRate, agentStatuses,
    \* ExtendedSession: the agents map (its keys) and the client socket
    agents, clientWs,
    \* the sessions table holds this session
    inSessions,
    \* the session state carried by the last status message sent to the client
    lastStatus,
    \* BaseAgent.status and the adapters' this.ws (0 is null, else a conns index)
    status, ws,
    \* every connect() attempt that went to the network, in call order
    conns,
    \* control handlers suspended at "await agent.connect()"
    handlers,
    \* OpenAISTTAgent: audioBuffer (frame ids), silenceTimeout (the handle of
    \* the timer set last, known by the frame that set it, 0 for null),
    \* isProcessing, and the timers of the adapter that are set and have
    \* neither fired nor been cleared
    audioBuffer, silenceTimeout, isProcessing, timeouts,
    \* the frames processAudioBuffer has put into a transcription request
    transcribed,
    \* ELEVENLABS_AGENT_ID is set
    agentId,
    \* bookkeeping of the run: client messages received so far, and how many
    \* of them were audio frames (a frame's number is its identity)
    msgCount, nextFrame, dualTrail,
    \* createAgent calls per type
    instances,
    \* per adapter: the frames the router passed to its sendAudio, and the frames
    \* that arrived while it was in activeAgents without being connected
    got, missed,
    \* what the most recent step did: the control message it handled ("none" if
    \* it was no control message), the agents getOrCreateAgent found in the map,
    \* its calls of sendAudio, disconnect and commitAndRespond, and the agents
    \* whose provider socket it sent the frame on
    lastCtl, reused, calls, disc, commits, sent,
    \* disconnect() calls on an adapter since its last connect() call (capped at 2)
    teardown,
    \* per agent the number of error messages the most recent step sent to
    \* the client
    errors,
    \* OpenAISTTAgent, one turn of processAudioBuffer: where it is suspended
    \* (pc), the number of the turn, the tokens of the generation stream not
    \* yet read, sentenceBuffer, fullResponse, and the
    \* synthesizeSpeechStreaming calls in flight
    pc, turn, stream, sentenceBuffer, fullResponse, synths,
    \* the pipeline's environment: idle-timer firings to come, and the tokens
    \* the generation stream delivers in every turn
    timers, streamAll,
    \* bookkeeping of the pipeline: the sentences submitted to synthesis in
    \* this turn, how the last finished turn ended, the audio-out frames the
    \* most recent step emitted, and turn and sentence of the last frame
    submitted, turnOutcome, emitted, lastFrame,
    \* conversationHistory, its entries known by their serial numbers; the
    \* messages of the most recent generation request; and what the most
    \* recent step did: the events it raised (onTranscript of the user or of
    \* the assistant, onError) and the upstream call that failed in it
    history, chatRequest, events, failed,
    \* the role of every entry of conversationHistory, and what the adapter has done in the turn
    \* so far, in order: its callbacks (the kinds of event), its writes to
    \* conversationHistory and its generation request
    roles, log,
    \* the kinds of message the most recent step sent on the client
    \* connection: "status", "error", "transcript", "audio"
    toClient,
    \* the server with all its sessions: see "the server's sessions"
    srv,
    \* the keep-alive of the third-party adapter: see "the third-party
    \* keep-alive"
    keepAlive,
    \* one call of synthesizeSpeechStreaming seen byte by byte: its locals
    \* chunks, totalLength and bytesSent, where it is (phase), the values
    \* read so far (reads) and the frames passed to onAudioResponse (out)
    tts

vars == <<mode, activeAgents, primaryAgent, sampleRate, agentStatuses, agents,
          clientWs, inSessions, lastStatus, status, ws, conns, handlers, audioBuffer,
          silenceTimeout, isProcessing, timeouts, transcribed, agentId, msgCount, lastCtl, nextFrame,
          dualTrail, instances, reused, got, missed, calls, disc, commits,
          sent, teardown, errors, pc, turn, stream, sentenceBuffer, fullResponse, synths,
          timers, streamAll, submitted, turnOutcome, emitted, lastFrame, history, chatRequest, events, failed, roles, log,
          toClient, srv, keepAlive, tts>>

\* the state of the decomposed pipeline, but for isProcessing
pipelineVars == <<pc, turn, stream, sentenceBuffer, fullResponse, synths, timers, streamAll,
              submitted, turnOutcome, emitted, lastFrame, history,
              chatRequest, events, failed, roles, log>>

\* the state of the session and of the adapters' connections
sessionVars == <<mode, activeAgents, primaryAgent, sampleRate, agentStatuses, agents,
                 clientWs, inSessions, lastStatus, status, ws, conns, handlers,
                 audioBuffer,
             silenceTimeout, timeouts, transcribed, agentId, msgCount, lastCtl, nextFrame, dualTrail,
             instances, reused, got, missed, calls, disc, commits, sent,
             teardown, errors>>

routing == <<mode, activeAgents, primaryAgent, sampleRate>>

\* the state of the byte-level view of one synthesis, of the server with
\* all its sessions, and of the keep-alive
chunkVars == <<tts, srv, keepAlive>>

\* ------------------------------------------------- the adapters' world W
\* The operators below are the methods of the code; they take and return the
\* record W of everything a method can touch, so that a handler is their
\* composition in program order.

CurW ==
    [agents |-> agents, instances |-> instances,
     status |-> status, agentStatuses |-> agentStatuses, ws |-> ws,
     conns |-> conns, handlers |-> handlers, audioBuffer |-> audioBuffer,
     silenceTimeout |-> silenceTimeout, timeouts |-> timeouts,
     transcribed |-> transcribed,
     got |-> got, missed |-> missed,
     teardown |-> teardown,
     reused |-> {}, calls |-> Zero, disc |-> Zero, commits |-> 0, sent |-> {},
     clientOpen |-> clientWs = "open",
     errors |-> Zero, toClient |-> {},
     routing |-> [mode |-> mode, activeAgents |-> activeAgents,
                  primaryAgent |-> primaryAgent, sampleRate |-> sampleRate],
     lastStatus |-> lastStatus]

\* the SessionState object of the session as it is
Current ==
    [mode |-> mode, activeAgents |-> activeAgents, primaryAgent |-> primaryAgent,
     sampleRate |-> sampleRate, agentStatuses |-> agentStatuses]

\* faulty variant: the status message is built from the routing fields as
\* the handler found them
Routed_notYet(W, m, active, primary, rate) == W

\* the handler has written the routing fields of the session state
Routed(W, m, active, primary, rate) ==
    [W EXCEPT !.routing = [mode |-> m, activeAgents |-> active,
                           primaryAgent |-> primary, sampleRate |-> rate]]

\* the SessionState object as JSON.stringify sees it
SessionState(W) ==
    [mode |-> W.routing.mode, activeAgents |-> W.routing.activeAgents,
     primaryAgent |-> W.routing.primaryAgent, sampleRate |-> W.routing.sampleRate,
     agentStatuses |-> W.agentStatuses]

CommitSession(W) ==
    /\ msgCount' + Len(W.conns) <= MaxWork
    /\ agents' = W.agents
    /\ instances' = W.instances
    /\ reused' = W.reused
    /\ status' = W.status
    /\ agentStatuses' = W.agentStatuses
    /\ ws' = W.ws
    /\ conns' = W.conns
    /\ handlers' = W.handlers
    /\ audioBuffer' = W.audioBuffer
    /\ silenceTimeout' = W.silenceTimeout
    /\ timeouts' = W.timeouts
    /\ transcribed' = W.transcribed
    /\ got' = W.got
    /\ missed' = W.missed
    /\ teardown' = W.teardown
    /\ calls' = W.calls
    /\ disc' = W.disc
    /\ commits' = W.commits
    /\ sent' = W.sent
    /\ errors' = W.errors
    /\ toClient' = W.toClient
    /\ lastStatus' = W.lastStatus

\* the step of the session ends: the pipeline's turn is where it was
Commit(W) ==
    /\ CommitSession(W)
    /\ UNCHANGED pipelineVars
    /\ UNCHANGED chunkVars

\* faulty variant: the status message is sent whatever the socket's state
sendStatus_unguarded(W) ==
    [W EXCEPT !.toClient = @ \cup {"status"}, !.lastStatus = SessionState(W)]

\* sendStatus: the session state goes to the client if its socket is open
sendStatus(W) ==
    IF W.clientOpen
    THEN [W EXCEPT !.toClient = @ \cup {"status"}, !.lastStatus = SessionState(W)]
    ELSE W

\* faulty variant: the session records the status only while the client's
\* socket is open
onStatusChange_ifOpen(W, a, s) ==
    IF W.clientOpen THEN sendStatus([W EXCEPT !.agentStatuses[a] = s]) ELSE W

\* the session's onStatusChange callback of the adapter of type a: the
\* status is recorded in the session state, which is sent to the client
onStatusChange(W, a, s) == sendStatus([W EXCEPT !.agentStatuses[a] = s])

\* BaseAgent.setStatus: the adapter's status, then its onStatusChange callback
setStatus(W, a, s) == onStatusChange([W EXCEPT !.status[a] = s], a, s)

\* the session's onError callback: an error message tagged with the agent
onError(W, a) ==
    IF W.clientOpen
    THEN [W EXCEPT !.errors[a] = @ + 1, !.toClient = @ \cup {"error"}]
    ELSE W

\* faulty variant: the lookup is skipped and every call creates an instance
getOrCreateAgent_noLookup(W, type) ==
    [W EXCEPT !.agents = @ \cup {type}, !.instances[type] = @ + 1]

\* getOrCreateAgent: the map lookup and, when absent, createAgent + set
getOrCreateAgent(W, type) ==
    IF type \in W.agents
    THEN [W EXCEPT !.reused = @ \cup {type}]
    ELSE [W EXCEPT !.agents = @ \cup {type}, !.instances[type] = @ + 1]

\* WebSocket.close() of the ws package on a socket in the given phase
wsClose(phase) ==
    CASE phase = "connecting" -> "aborted"
      [] phase = "open" -> "closing"
      [] OTHER -> phase

\* a connect() attempt that went to the network: what it waits for (phase),
\* the promise its caller awaits, and elevenlabs' connectionTimeout
NewConn(a, phase) ==
    [agent |-> a, phase |-> phase, promise |-> "pending", timer |-> FALSE]

\* connect() up to its first suspension.  The result carries in "conn" the
\* attempt the caller is left awaiting (0: connect() returned at once).
connectV2V(W) ==
    IF W.status[V2V] \in {"connected", "connecting"}
    THEN [w |-> W, conn |-> 0]
    ELSE LET W1 == setStatus([W EXCEPT !.teardown[V2V] = 0], V2V, "connecting")
             id == Len(W.conns) + 1
         IN [w |-> [W1 EXCEPT !.conns = Append(@, NewConn(V2V, "connecting")),
                              !.ws[V2V] = id],
             conn |-> id]

connectSTT(W) ==
    IF W.status[STT] \in {"connected", "connecting"}
    THEN [w |-> W, conn |-> 0]
    ELSE LET W1 == setStatus([W EXCEPT !.teardown[STT] = 0], STT, "connecting")
         IN [w |-> [W1 EXCEPT !.conns = Append(@, NewConn(STT, "fetch"))],
             conn |-> Len(W.conns) + 1]

connectEL(W) ==
    IF W.status[EL] \in {"connected", "connecting"}
    THEN [w |-> W, conn |-> 0]
    ELSE IF ~agentId
    THEN [w |-> onError(setStatus(W, EL, "error"), EL), conn |-> 0]
    ELSE LET W1 == setStatus([W EXCEPT !.teardown[EL] = 0], EL, "connecting")
         IN [w |-> [W1 EXCEPT !.conns = Append(@, NewConn(EL, "fetch"))],
             conn |-> Len(W.conns) + 1]

connect(W, a) ==
    CASE a = V2V -> connectV2V(W)
      [] a = STT -> connectSTT(W)
      [] a = EL -> connectEL(W)

\* disconnect() was called on adapter a
Called(W, a) ==
    [W EXCEPT !.disc[a] = @ + 1,
              !.teardown[a] = IF @ < 2 THEN @ + 1 ELSE 2]

disconnectV2V(W) ==
    IF W.ws[V2V] # 0
    THEN setStatus([W EXCEPT !.conns[W.ws[V2V]].phase = wsClose(@), !.ws[V2V] = 0],
                   V2V, "disconnected")
    ELSE setStatus(W, V2V, "disconnected")

\* clearTimeout(handle): a timer that has fired or was cleared is not there
clearTimeout(W, handle) == [W EXCEPT !.timeouts = @ \ {handle}]

\* faulty variant: the buffered audio and the idle timer are kept
disconnectSTT_keepBuffer(W) ==
    setStatus(W, STT, "disconnected")

disconnectSTT(W) ==
    setStatus([clearTimeout(W, W.silenceTimeout) EXCEPT
                   !.silenceTimeout = 0, !.audioBuffer = <<>>],
              STT, "disconnected")

disconnectEL(W) ==
    IF W.ws[EL] # 0
    THEN setStatus([W EXCEPT !.conns[W.ws[EL]].phase = wsClose(@), !.ws[EL] = 0],
                   EL, "disconnected")
    ELSE setStatus(W, EL, "disconnected")

disconnect(W, a) ==
    CASE a = V2V -> disconnectV2V(Called(W, a))
      [] a = STT -> disconnectSTT(Called(W, a))
      [] a = EL -> disconnectEL(Called(W, a))

\* faulty variant: adapters that are already disconnected are skipped
DisconnectTargets_liveOnly(W) == {a \in W.agents : W.status[a] # "disconnected"}

\* the adapters the stop branch and the close handler disconnect
DisconnectTargets(W) == W.agents

RECURSIVE DisconnectEach(_, _)
DisconnectEach(W, S) ==
    IF S = {} THEN W
    ELSE LET a == CHOOSE x \in S : TRUE
         IN DisconnectEach(disconnect(W, a), S \ {a})

DisconnectAll(W) == DisconnectEach(W, DisconnectTargets(W))

\* the dual-mode connect loop of the toggle-dual branch, from its k-th agent;
\* it stops where "await agent.connect()" suspends the handler
RECURSIVE ToggleLoop(_, _)
ToggleLoop(W, k) ==
    IF k > Len(DualAgents) THEN sendStatus(W)
    ELSE LET a == DualAgents[k]
             W1 == getOrCreateAgent(W, a)
         IN IF W1.status[a] = "disconnected"
            THEN LET r == connect(W1, a)
                 IN IF r.conn # 0
                    THEN [r.w EXCEPT !.handlers =
                              @ \cup {[kind |-> "toggle-dual", conn |-> r.conn, at |-> k]}]
                    ELSE ToggleLoop(r.w, k + 1)
            ELSE ToggleLoop(W1, k + 1)

\* faulty variant: a rejected connect ends the handler that awaited it
Resume_abortOnReject(W, i) ==
    LET hs == {h \in W.handlers : h.conn = i}
    IN IF hs = {} THEN W
       ELSE LET h == CHOOSE x \in hs : TRUE
                W1 == [W EXCEPT !.handlers = @ \ {h}]
            IN IF h.kind = "toggle-dual" /\ W.conns[i].promise # "rejected"
               THEN ToggleLoop(W1, h.at + 1)
               ELSE W1

\* faulty variant: the handler awaiting the attempt is never run on
Resume_stuck(W, i) == W

\* the continuation of the control handler that awaits attempt i, if any:
\* start and swap go on to sendStatus, toggle-dual to the next agent of its loop
Resume(W, i) ==
    LET hs == {h \in W.handlers : h.conn = i}
    IN IF hs = {} THEN W
       ELSE LET h == CHOOSE x \in hs : TRUE
                W1 == [W EXCEPT !.handlers = @ \ {h}]
            IN IF h.kind = "toggle-dual" THEN ToggleLoop(W1, h.at + 1)
               ELSE sendStatus(W1)

\* the promise of attempt i settles (a settled promise stays as it is) and
\* the handler awaiting it runs on
Settle(W, i, outcome) ==
    IF W.conns[i].promise = "pending"
    THEN Resume([W EXCEPT !.conns[i].promise = outcome], i)
    ELSE W

\* the catch block of OpenAISTTAgent.connect and of ElevenLabsAgent.connect,
\* entered when what connect() awaits throws: status error, onError, rethrow
connectCatch(W, i) ==
    IF W.conns[i].promise = "pending"
    THEN Settle(onError(setStatus(W, W.conns[i].agent, "error"), W.conns[i].agent),
                i, "rejected")
    ELSE W

\* ws.readyState === WebSocket.OPEN for the adapter's this.ws
wsOpen(W, a) ==
    /\ W.ws[a] # 0
    /\ W.conns[W.ws[a]].phase = "open"

\* sendAudio(frame f) of the three adapters
sendAudioV2V(W, f) ==
    IF ~wsOpen(W, V2V) THEN W
    ELSE [W EXCEPT !.sent = @ \cup {V2V}]

\* faulty variant: the timer of the frame before is left to run
sendAudioSTT_noClear(W, f) ==
    IF W.status[STT] # "connected" THEN W
    ELSE [W EXCEPT !.audioBuffer = Append(@, f), !.silenceTimeout = f,
                   !.timeouts = @ \cup {f}]

\* OpenAISTTAgent.sendAudio: the frame is buffered, the timer of the frame
\* before cleared and a new one set
sendAudioSTT(W, f) ==
    IF W.status[STT] # "connected" THEN W
    ELSE LET W1 == [W EXCEPT !.audioBuffer = Append(@, f)]
             W2 == IF W1.silenceTimeout # 0
                   THEN clearTimeout(W1, W1.silenceTimeout)
                   ELSE W1
         IN [W2 EXCEPT !.silenceTimeout = f, !.timeouts = @ \cup {f}]

sendAudioEL(W, f) ==
    IF ~wsOpen(W, EL) THEN W
    ELSE [W EXCEPT !.sent = @ \cup {EL}]

sendAudio(W, a, f) ==
    CASE a = V2V -> sendAudioV2V(W, f)
      [] a = STT -> sendAudioSTT(W, f)
      [] a = EL -> sendAudioEL(W, f)

\* commitAndRespond of the realtime adapter: the two sends
commitAndRespond(W) ==
    IF ~wsOpen(W, V2V) THEN W
    ELSE [W EXCEPT !.commits = @ + 1]

\* faulty variant: the status test is dropped
Forward_anyStatus(W, a) == a \in W.agents

\* faulty variant: only a failed adapter is skipped
Forward_notError(W, a) ==
    /\ a \in W.agents
    /\ W.status[a] # "error"

\* the router's test before it forwards a frame to an agent of activeAgents
Forward(W, a) ==
    /\ a \in W.agents
    /\ W.status[a] = "connected"

\* the binary branch of ws.on('message'): the loop over activeAgents
RECURSIVE RouteLoop(_, _, _)
RouteLoop(W, seq, f) ==
    IF seq = <<>> THEN W
    ELSE LET a == Head(seq)
             W0 == IF a \in W.agents /\ W.status[a] = "connected" THEN W
                   ELSE [W EXCEPT !.missed[a] = @ \cup {f}]
             W1 == IF Forward(W0, a)
                   THEN sendAudio([W0 EXCEPT !.calls[a] = @ + 1,
                                             !.got[a] = @ \cup {f}], a, f)
                   ELSE W0
         IN RouteLoop(W1, Tail(seq), f)

\* the mic-release branch: commitAndRespond of a connected openai-v2v
RECURSIVE MicLoop(_, _)
MicLoop(W, seq) ==
    IF seq = <<>> THEN W
    ELSE LET a == Head(seq)
             W1 == IF a \in W.agents /\ W.status[a] = "connected" /\ a = V2V
                   THEN commitAndRespond(W)
                   ELSE W
         IN MicLoop(W1, Tail(seq))

\* faulty variant: swap narrows activeAgents in dual mode too
SwapActive_alwaysOne(m, active, newAgentType) == <<newAgentType>>

\* activeAgents after swap to newAgentType
SwapActive(m, active, newAgentType) ==
    IF m = "dual" THEN active ELSE <<newAgentType>>

\* faulty variant: leaving dual mode falls back to the session's initial agent
ToggleActive_initialAgent(enabled, primary) ==
    IF enabled THEN DualAgents ELSE <<V2V>>

\* activeAgents after toggle-dual
ToggleActive(enabled, primary) ==
    IF enabled THEN DualAgents ELSE <<primary>>

\* ------------------------------------------------------------------ Init
\* createSessionState, the constructors of the adapters, the empty agents map
\* what generateSessionId may return
SessionIds == {"id1", "id2"}

\* synthesizeSpeechStreaming with its response in hand: nothing read yet;
\* the server before its first client
ChunkInit ==
    /\ tts = [chunks |-> <<>>, totalLength |-> 0, bytesSent |-> 0,
              phase |-> "read", reads |-> 0, out |-> <<>>]
    /\ srv = [sessions |-> [id \in SessionIds |-> 0], objs |-> <<>>,
              states |-> <<>>, adapters |-> <<>>, clients |-> <<>>,
              sentTo |-> {}, actor |-> 0, ops |-> 0]
    /\ keepAlive = [pings |-> 0, timers |-> {}, log |-> <<>>]

\* the pipeline before its first turn; tokens is what the generation
\* stream will deliver, n the idle-timer firings to come, h the
\* conversation history of the turns before
PipelineInit(tokens, n, h) ==
    /\ pc = "idle"
    /\ turn = 0
    /\ stream = <<>>
    /\ sentenceBuffer = <<>>
    /\ synths = {}
    /\ timers = n
    /\ streamAll = tokens
    /\ submitted = <<>>
    /\ turnOutcome = "none"
    /\ emitted = <<>>
    /\ lastFrame = [turn |-> 0, sent |-> 0, to |-> 0]
    /\ history = h
    /\ roles = [k \in DOMAIN h |-> IF k % 2 = 1 THEN "user" ELSE "assistant"]
    /\ fullResponse = <<>>
    /\ log = <<>>
    /\ chatRequest = <<>>
    /\ events = {}
    /\ failed = "none"
    /\ toClient = {}
    /\ ChunkInit

Init ==
    /\ PipelineInit(<<>>, 0, <<>>)
    /\ mode = "single"
    /\ primaryAgent = V2V
    /\ activeAgents = <<V2V>>
    /\ sampleRate = getAgentSampleRate(V2V)
    /\ agentStatuses = [a \in AgentType |-> "disconnected"]
    /\ agents = {}
    /\ clientWs = "open"
    /\ inSessions = TRUE
    /\ lastStatus = Current
    /\ status = [a \in AgentType |-> "disconnected"]
    /\ ws = Zero
    /\ conns = <<>>
    /\ handlers = {}
    /\ audioBuffer = <<>>
    /\ silenceTimeout = 0
    /\ timeouts = {}
    /\ transcribed = {}
    /\ isProcessing = FALSE
    /\ agentId \in BOOLEAN
    /\ msgCount = 0
    /\ lastCtl = "none"
    /\ nextFrame = 0
    /\ dualTrail = "none"
    /\ instances = Zero
    /\ reused = {}
    /\ got = [a \in AgentType |-> {}]
    /\ missed = [a \in AgentType |-> {}]
    /\ calls = Zero
    /\ disc = Zero
    /\ commits = 0
    /\ sent = {}
    /\ teardown = Zero
    /\ errors = Zero

\* ------------------------------------------------------ control messages
\* faulty variant: a control message waits for the handlers in flight
Ctl_serialized(action) ==
    /\ handlers = {}
    /\ clientWs = "open"
    /\ msgCount + Len(conns) < MaxWork
    /\ msgCount' = msgCount + 1
    /\ lastCtl' = action
    /\ UNCHANGED <<clientWs, inSessions, isProcessing, agentId, nextFrame>>

\* ws.on('message'), control branch: every message starts its own handler
Ctl(action) ==
    /\ clientWs = "open"
    /\ msgCount + Len(conns) < MaxWork
    /\ msgCount' = msgCount + 1
    /\ lastCtl' = action
    /\ UNCHANGED <<clientWs, inSessions, isProcessing, agentId, nextFrame>>

\* whether the run so far is "toggle-dual(true), then swaps and mic-releases"
TrailKeep == IF dualTrail \in {"on", "onSwap"} THEN dualTrail ELSE "none"

CtlStart ==
    /\ Ctl("start")
    /\ LET W1 == getOrCreateAgent(CurW, primaryAgent)
           r == connect(W1, primaryAgent)
       IN Commit(IF r.conn # 0
                 THEN [r.w EXCEPT !.handlers =
                           @ \cup {[kind |-> "start", conn |-> r.conn, at |-> 0]}]
                 ELSE sendStatus(r.w))
    /\ dualTrail' = TrailKeep
    /\ UNCHANGED routing

CtlStop ==
    /\ Ctl("stop")
    /\ Commit(sendStatus(DisconnectAll(CurW)))
    /\ dualTrail' = TrailKeep
    /\ UNCHANGED routing

\* faulty variant: the previous primary agent is disconnected on swap
CtlSwap_disconnectPrevious(newAgentType) ==
    /\ Ctl("swap")
    /\ primaryAgent' = newAgentType
    /\ activeAgents' = SwapActive(mode, activeAgents, newAgentType)
    /\ sampleRate' = getAgentSampleRate(newAgentType)
    /\ LET WR == Routed(CurW, mode, SwapActive(mode, activeAgents, newAgentType),
                        newAgentType, getAgentSampleRate(newAgentType))
           W0 == IF primaryAgent \in agents /\ primaryAgent # newAgentType
                 THEN disconnect(WR, primaryAgent)
                 ELSE WR
           W1 == getOrCreateAgent(W0, newAgentType)
           r == connect(W1, newAgentType)
       IN Commit(IF W1.status[newAgentType] = "disconnected"
                 THEN IF r.conn # 0
                      THEN [r.w EXCEPT !.handlers =
                                @ \cup {[kind |-> "swap", conn |-> r.conn, at |-> 0]}]
                      ELSE sendStatus(r.w)
                 ELSE sendStatus(W1))
    /\ dualTrail' = IF dualTrail \in {"on", "onSwap"} THEN "onSwap" ELSE "none"
    /\ UNCHANGED mode

CtlSwap(newAgentType) ==
    /\ Ctl("swap")
    /\ primaryAgent' = newAgentType
    /\ activeAgents' = SwapActive(mode, activeAgents, newAgentType)
    /\ sampleRate' = getAgentSampleRate(newAgentType)
    /\ LET W0 == Routed(CurW, mode, SwapActive(mode, activeAgents, newAgentType),
                        newAgentType, getAgentSampleRate(newAgentType))
           W1 == getOrCreateAgent(W0, newAgentType)
           r == connect(W1, newAgentType)
       IN Commit(IF W1.status[newAgentType] = "disconnected"
                 THEN IF r.conn # 0
                      THEN [r.w EXCEPT !.handlers =
                                @ \cup {[kind |-> "swap", conn |-> r.conn, at |-> 0]}]
                      ELSE sendStatus(r.w)
                 ELSE sendStatus(W1))
    /\ dualTrail' = IF dualTrail \in {"on", "onSwap"} THEN "onSwap" ELSE "none"
    /\ UNCHANGED mode

\* faulty variant: activeAgents is written after the connect loop, which a
\* handler that suspends in the loop has not reached when the step ends
CtlToggleDual_lateActive(payloadEnabled) ==
    LET enabled == IF payloadEnabled = "none" THEN mode # "dual"
                   ELSE payloadEnabled = "true"
        W0 == Routed(CurW, IF enabled THEN "dual" ELSE "single",
                     ToggleActive(enabled, primaryAgent), primaryAgent, sampleRate)
        W1 == IF enabled THEN ToggleLoop(W0, 1) ELSE sendStatus(W0)
    IN /\ Ctl("toggle-dual")
       /\ mode' = IF enabled THEN "dual" ELSE "single"
       /\ activeAgents' = IF W1.handlers # handlers THEN activeAgents
                          ELSE ToggleActive(enabled, primaryAgent)
       /\ Commit(W1)
       /\ dualTrail' = CASE payloadEnabled = "true" -> "on"
                         [] payloadEnabled = "false" /\ dualTrail = "on" -> "off"
                         [] payloadEnabled = "false" /\ dualTrail = "onSwap" -> "offSwap"
                         [] OTHER -> "none"
       /\ UNCHANGED <<primaryAgent, sampleRate>>

\* payload.enabled is "true", "false" or absent ("none": the mode flips)
CtlToggleDual(payloadEnabled) ==
    LET enabled == IF payloadEnabled = "none" THEN mode # "dual"
                   ELSE payloadEnabled = "true"
        W0 == Routed(CurW, IF enabled THEN "dual" ELSE "single",
                     ToggleActive(enabled, primaryAgent), primaryAgent, sampleRate)
    IN /\ Ctl("toggle-dual")
       /\ mode' = IF enabled THEN "dual" ELSE "single"
       /\ activeAgents' = ToggleActive(enabled, primaryAgent)
       /\ Commit(IF enabled THEN ToggleLoop(W0, 1) ELSE sendStatus(W0))
       /\ dualTrail' = CASE payloadEnabled = "true" -> "on"
                         [] payloadEnabled = "false" /\ dualTrail = "on" -> "off"
                         [] payloadEnabled = "false" /\ dualTrail = "onSwap" -> "offSwap"
                         [] OTHER -> "none"
       /\ UNCHANGED <<primaryAgent, sampleRate>>

CtlSelect(agent) ==
    /\ Ctl("select")
    /\ primaryAgent' = agent
    /\ mode' = "single"
    /\ activeAgents' = <<agent>>
    /\ Commit(sendStatus(Routed(CurW, "single", <<agent>>, agent, sampleRate)))
    /\ dualTrail' = "none"
    /\ UNCHANGED sampleRate

\* swap or select without payload.agent: the branch is skipped
CtlNoAgent(action) ==
    /\ Ctl(action)
    /\ Commit(sendStatus(CurW))
    /\ dualTrail' = "none"
    /\ UNCHANGED routing

CtlMicRelease ==
    /\ Ctl("mic-release")
    /\ Commit(sendStatus(MicLoop(CurW, activeAgents)))
    /\ dualTrail' = TrailKeep
    /\ UNCHANGED routing

\* ------------------------------------------------- audio and client close
RouteAudio ==
    /\ clientWs = "open"
    /\ msgCount + Len(conns) < MaxWork
    /\ msgCount' = msgCount + 1
    /\ nextFrame' = nextFrame + 1
    /\ Commit(RouteLoop(CurW, activeAgents, nextFrame + 1))
    /\ lastCtl' = "none"
    /\ UNCHANGED <<routing, clientWs, inSessions, isProcessing, agentId, dualTrail>>

\* ws.on('close')
ClientClose ==
    /\ msgCount' = msgCount
    /\ clientWs = "open"
    /\ clientWs' = "closed"
    /\ inSessions' = FALSE
    /\ Commit(DisconnectAll([CurW EXCEPT !.clientOpen = FALSE]))
    /\ lastCtl' = "none"
    /\ UNCHANGED <<routing, isProcessing, agentId, nextFrame, dualTrail>>

\* ---------------------------------------------- the environment's events
\* what an event of an adapter's connection leaves alone
EnvFrame ==
    /\ lastCtl' = "none"
    /\ UNCHANGED <<routing, clientWs, inSessions, isProcessing, agentId,
                   nextFrame, dualTrail>>

\* OpenAISTTAgent.connect: the /v1/models request answers ok
SttFetchOk(i) ==
    /\ msgCount' = msgCount
    /\ conns[i].agent = STT
    /\ conns[i].phase = "fetch"
    /\ Commit(Settle(setStatus([CurW EXCEPT !.conns[i].phase = "done"],
                               STT, "connected"), i, "resolved"))
    /\ EnvFrame

\* OpenAISTTAgent.connect: the request fails or answers not-ok
SttFetchFail(i) ==
    /\ msgCount' = msgCount
    /\ conns[i].agent = STT
    /\ conns[i].phase = "fetch"
    /\ Commit(connectCatch([CurW EXCEPT !.conns[i].phase = "done"], i))
    /\ EnvFrame

\* ElevenLabsAgent.connect: getSignedUrl returns a URL; connectWebSocket
\* creates the socket and arms connectionTimeout
ElSignedUrlOk(i) ==
    /\ msgCount' = msgCount
    /\ conns[i].agent = EL
    /\ conns[i].phase = "fetch"
    /\ Commit([CurW EXCEPT !.conns[i].phase = "connecting",
                           !.conns[i].timer = TRUE,
                           !.ws[EL] = i])
    /\ EnvFrame

\* ElevenLabsAgent.connect: getSignedUrl returns null
ElSignedUrlFail(i) ==
    /\ msgCount' = msgCount
    /\ conns[i].agent = EL
    /\ conns[i].phase = "fetch"
    /\ Commit(connectCatch([CurW EXCEPT !.conns[i].phase = "done"], i))
    /\ EnvFrame

\* OpenAIV2VAgent: ws.on('open')
V2VWsOpen(i) ==
    /\ msgCount' = msgCount
    /\ conns[i].agent = V2V
    /\ conns[i].phase = "connecting"
    /\ Commit(Settle(setStatus([CurW EXCEPT !.conns[i].phase = "open"],
                               V2V, "connected"), i, "resolved"))
    /\ EnvFrame

\* ElevenLabsAgent: ws.on('open')
ElWsOpen(i) ==
    /\ msgCount' = msgCount
    /\ conns[i].agent = EL
    /\ conns[i].phase = "connecting"
    /\ Commit(Settle(setStatus([CurW EXCEPT !.conns[i].phase = "open",
                                            !.conns[i].timer = FALSE],
                               EL, "connected"), i, "resolved"))
    /\ EnvFrame

\* the phases in which the ws package emits 'error': a failed handshake, a
\* failure of an open socket, close() called during the handshake
ErrorPhases == {"connecting", "open", "aborted"}

\* the phases in which it emits 'close': after an error, after close(), or
\* when the provider closes an open socket
ClosePhases == {"errored", "closing", "aborted", "open"}

\* OpenAIV2VAgent: ws.on('error')
V2VWsError(i) ==
    /\ msgCount' = msgCount
    /\ conns[i].agent = V2V
    /\ conns[i].phase \in ErrorPhases
    /\ Commit(Settle(onError(setStatus([CurW EXCEPT !.conns[i].phase = "errored"],
                                       V2V, "error"), V2V), i, "rejected"))
    /\ EnvFrame

\* ElevenLabsAgent: ws.on('error'); its reject lands in connect()'s catch
ElWsError(i) ==
    /\ msgCount' = msgCount
    /\ conns[i].agent = EL
    /\ conns[i].phase \in ErrorPhases
    /\ Commit(connectCatch(onError(setStatus([CurW EXCEPT !.conns[i].phase = "errored",
                                                          !.conns[i].timer = FALSE],
                                             EL, "error"), EL), i))
    /\ EnvFrame

\* OpenAIV2VAgent: ws.on('close')
V2VWsClose(i) ==
    /\ msgCount' = msgCount
    /\ conns[i].agent = V2V
    /\ conns[i].phase \in ClosePhases
    /\ Commit(setStatus([CurW EXCEPT !.conns[i].phase = "closed", !.ws[V2V] = 0],
                        V2V, "disconnected"))
    /\ EnvFrame

\* ElevenLabsAgent: ws.on('close')
ElWsClose(i) ==
    /\ msgCount' = msgCount
    /\ conns[i].agent = EL
    /\ conns[i].phase \in ClosePhases
    /\ Commit(setStatus([CurW EXCEPT !.conns[i].phase = "closed",
                                     !.conns[i].timer = FALSE,
                                     !.ws[EL] = 0],
                        EL, "disconnected"))
    /\ EnvFrame

\* ElevenLabsAgent.connectWebSocket: connectionTimeout fires
ConnectionTimeout(i) ==
    /\ msgCount' = msgCount
    /\ conns[i].timer
    /\ LET W1 == [CurW EXCEPT !.conns[i].timer = FALSE]
       IN IF W1.status[EL] = "connecting"
          THEN Commit(connectCatch(IF W1.ws[EL] # 0
                                   THEN [W1 EXCEPT !.conns[W1.ws[EL]].phase = wsClose(@)]
                                   ELSE W1, i))
          ELSE Commit(W1)
    /\ EnvFrame

\* ------------------------------------------ the decomposed adapter's timer
\* silenceTimeout fires: processAudioBuffer up to its first await
SilenceTimeout ==
    /\ msgCount' = msgCount
    /\ \E t \in timeouts :
          IF audioBuffer = <<>> \/ isProcessing
          THEN /\ Commit([CurW EXCEPT !.timeouts = @ \ {t}])
               /\ UNCHANGED isProcessing
          ELSE /\ Commit([CurW EXCEPT !.timeouts = @ \ {t}, !.audioBuffer = <<>>,
                                      !.transcribed = @ \cup Range(audioBuffer)])
               /\ isProcessing' = TRUE
    /\ lastCtl' = "none"
    /\ UNCHANGED <<routing, clientWs, inSessions, agentId, nextFrame,
                   dualTrail>>

\* the turn ends (every exit of processAudioBuffer clears isProcessing)
TurnEnd ==
    /\ msgCount' = msgCount
    /\ isProcessing
    /\ isProcessing' = FALSE
    /\ Commit(CurW)
    /\ lastCtl' = "none"
    /\ UNCHANGED <<routing, clientWs, inSessions, agentId, nextFrame,
                   dualTrail>>

Next ==
    \/ CtlStart
    \/ CtlStop
    \/ \E a \in AgentType : CtlSwap(a)
    \/ \E e \in {"true", "false", "none"} : CtlToggleDual(e)
    \/ \E a \in AgentType : CtlSelect(a)
    \/ \E action \in {"swap", "select"} : CtlNoAgent(action)
    \/ CtlMicRelease
    \/ RouteAudio
    \/ ClientClose
    \/ \E i \in DOMAIN conns : SttFetchOk(i)
    \/ \E i \in DOMAIN conns : SttFetchFail(i)
    \/ \E i \in DOMAIN conns : ElSignedUrlOk(i)
    \/ \E i \in DOMAIN conns : ElSignedUrlFail(i)
    \/ \E i \in DOMAIN conns : V2VWsOpen(i)
    \/ \E i \in DOMAIN conns : ElWsOpen(i)
    \/ \E i \in DOMAIN conns : V2VWsError(i)
    \/ \E i \in DOMAIN conns : ElWsError(i)
    \/ \E i \in DOMAIN conns : V2VWsClose(i)
    \/ \E i \in DOMAIN conns : ElWsClose(i)
    \/ \E i \in DOMAIN conns : ConnectionTimeout(i)
    \/ SilenceTimeout
    \/ TurnEnd

Spec == Init /\ [][Next]_vars

\* timers fire and network calls return: a silenceTimeout that is set
\* fires unless it is cleared, and the requests of a turn come back, so
\* that the turn ends
SpecLive == Init /\ [][Next]_vars /\ WF_vars(SilenceTimeout) /\ WF_vars(TurnEnd)

\* ------------------------------------------- the decomposed pipeline
\* One OpenAISTTAgent from the firing of its idle timer to the end of the
\* turn: transcription, the chat request, the token loop of
\* generateAndSpeakResponse and the synthesizeSpeechStreaming calls.  Text
\* is a sequence of characters.

\* the generation stream "Hi there. How are you? Great"
Text ==
    <<"H", "i", " ", "t", "h", "e", "r", "e", ".", " ", "H", "o", "w", " ",
      "a", "r", "e", " ", "y", "o", "u", "?", " ", "G", "r", "e", "a", "t">>

\* the sets of at most k places at which Text is cut into tokens
RECURSIVE CutSets(_)
CutSets(k) ==
    IF k = 0 THEN {{}}
    ELSE LET S == CutSets(k - 1)
         IN S \cup {C \cup {c} : C \in S, c \in 1..(Len(Text) - 1)}

\* the tokens of Text from position from, cut after the places in C
RECURSIVE Split(_, _)
Split(from, C) ==
    LET rest == {c \in C : c >= from}
    IN IF rest = {} THEN <<SubSeq(Text, from, Len(Text))>>
       ELSE LET c == CHOOSE x \in rest : \A y \in rest : x <= y
            IN <<SubSeq(Text, from, c)>> \o Split(c + 1, C)

\* every way the provider may deliver Text in at most MaxTokens tokens
TokenStreams == {Split(1, C) : C \in CutSets(MaxTokens - 1)}

\* \s of the regular expressions, and what String.trim() strips
IsSpace(c) == c \in {" ", "\n", "\t"}

\* SENTENCE_ENDINGS.test(buf): /[.!?](?:\s|$)/
SENTENCE_ENDINGS(buf) ==
    \E i \in 1..Len(buf) :
        /\ buf[i] \in {".", "!", "?"}
        /\ i = Len(buf) \/ IsSpace(buf[i + 1])

\* faulty variant: the first character goes too, white space or not
trim_andFirst(buf) == IF buf = <<>> THEN buf ELSE Tail(buf)

\* String.trim()
RECURSIVE trim(_)
trim(buf) ==
    IF buf = <<>> THEN buf
    ELSE IF IsSpace(Head(buf)) THEN trim(Tail(buf))
    ELSE IF IsSpace(buf[Len(buf)]) THEN trim(SubSeq(buf, 1, Len(buf) - 1))
    ELSE buf

\* targetChunkSize of synthesizeSpeechStreaming
targetChunkSize == 4800

\* faulty variant: the remainder is sent whole
alignedRemaining_whole(remaining) == remaining

\* the remainder cut to an even number of bytes, for PCM16 alignment
alignedRemaining(remaining) == remaining - (remaining % 2)

\* the lengths of the values reader.read() returns from a synthesis stream
ReadLens == {2400, 4801}

\* the number of entries the conversation history is cut back to
historyLimit == 10

\* the lengths of the conversation history at the start
HistoryStarts == {0, 8}

\* faulty variant: nothing is evicted
slice_keepAll(h) == h

\* "if (conversationHistory.length > 10) conversationHistory =
\* conversationHistory.slice(-10)"
slice(h) ==
    IF Len(h) > historyLimit
    THEN SubSeq(h, Len(h) - historyLimit + 1, Len(h))
    ELSE h

\* conversationHistory.push: the new entry has the next serial number
push(h) == Append(h, IF h = <<>> THEN 1 ELSE h[Len(h)] + 1)

\* faulty variant: an empty transcription is reported as an error
endEvents_errorOnEmpty(how) ==
    IF how \in {"failed", "empty"} THEN {"error"}
    ELSE IF streamAll # <<>> THEN {"transcript-assistant"} ELSE {}

\* the events processAudioBuffer raises on its way out: onError in its
\* catch, onTranscript('assistant') when fullResponse is not empty, nothing
\* when no speech was detected
endEvents(how) ==
    IF how = "failed" THEN {"error"}
    ELSE IF how = "ok" /\ streamAll # <<>> THEN {"transcript-assistant"}
    ELSE {}

\* faulty variant: the loop does not wait for the synthesis it started
submitPc_noWait(atEnd) == IF atEnd THEN "awaitLast" ELSE "read"

\* where generateAndSpeakResponse is suspended once it has called
\* synthesizeSpeechStreaming: "await" in the token loop, "await" after it
submitPc(atEnd) == IF atEnd THEN "awaitLast" ELSE "awaitSynth"

\* synthesizeSpeechStreaming(sentence) is called: up to its fetch
Submit(sentence, atEnd) ==
    /\ submitted' = Append(submitted, [text |-> sentence, atEnd |-> atEnd])
    /\ synths' = synths \cup {[turn |-> turn, sent |-> Len(submitted) + 1,
                               phase |-> "fetch", totalLength |-> 0,
                               bytesSent |-> 0, reads |-> 0]}
    /\ pc' = submitPc(atEnd)

\* the session's onAudioResponse, onTranscript and onError callbacks for
\* what the step raised: each sends if the client's socket is open
Delivered ==
    IF clientWs' = "open"
    THEN {"transcript" : e \in events' \ {"error"}}
         \cup {"error" : e \in events' \cap {"error"}}
         \cup {"audio" : k \in DOMAIN emitted'}
    ELSE {}

\* faulty variant: the assistant's transcript is raised as the last
\* synthesis begins to send, before the frames
stepLog_transcriptFirst(ev, frames) ==
    (IF "transcript-user" \in ev
     THEN <<"transcript-user", "push-user", "request">> ELSE <<>>)
    \o (IF "transcript-assistant" \in ev
        THEN <<"push-assistant", "transcript-assistant">> ELSE <<>>)
    \o [k \in DOMAIN frames |-> "audio"]
    \o (IF "error" \in ev THEN <<"error">> ELSE <<>>)

\* what one step of the turn does, in the order of the code: after the
\* transcription onTranscript('user'), conversationHistory.push and the
\* generation request; the onAudioResponse calls of a synthesis come before
\* it returns, and conversationHistory.push and onTranscript('assistant')
\* after the last one has returned; onError comes from the catch
stepLog(ev, frames) ==
    (IF "transcript-user" \in ev
     THEN <<"transcript-user", "push-user", "request">> ELSE <<>>)
    \o [k \in DOMAIN frames |-> "audio"]
    \o (IF "transcript-assistant" \in ev
        THEN <<"push-assistant", "transcript-assistant">> ELSE <<>>)
    \o (IF "error" \in ev THEN <<"error">> ELSE <<>>)

\* a step of the pipeline leaves the session as it is
PipelineStep ==
    /\ UNCHANGED sessionVars
    /\ UNCHANGED chunkVars
    /\ toClient' = Delivered
    /\ log' = IF turn' # turn THEN <<>> ELSE log \o stepLog(events', emitted')

\* the turn is over: processAudioBuffer's exits all clear isProcessing
EndTurn(how) ==
    /\ pc' = "idle"
    /\ isProcessing' = FALSE
    /\ turnOutcome' = how
    /\ events' = endEvents(how)
    /\ history' = IF how = "ok" /\ streamAll # <<>> THEN push(history) ELSE history
    /\ roles' = IF how = "ok" /\ streamAll # <<>>
                THEN Append(roles, "assistant") ELSE roles

\* the turn goes on, ev being the events the step raised
GoOn(ev) ==
    /\ events' = ev
    /\ UNCHANGED <<isProcessing, turnOutcome>>

\* faulty variant: the trigger starts a turn whether one is in flight or not
turnInFlight_never == FALSE

\* the isProcessing half of the test processAudioBuffer returns on
turnInFlight == isProcessing

\* the idle timer fires: processAudioBuffer up to "await transcribeAudio"
TimerFires ==
    /\ timers > 0
    /\ status[STT] = "connected"
    /\ timers' = timers - 1
    /\ IF turnInFlight
       THEN UNCHANGED <<isProcessing, pc, turn, submitted>>
       ELSE /\ isProcessing' = TRUE
            /\ pc' = "transcribe"
            /\ turn' = turn + 1
            /\ submitted' = <<>>
    /\ emitted' = <<>>
    /\ events' = {}
    /\ failed' = "none"
    /\ UNCHANGED <<stream, sentenceBuffer, fullResponse, synths, streamAll, turnOutcome, lastFrame,
                   history, roles, chatRequest>>
    /\ PipelineStep

\* transcribeAudio returns: a transcript, an empty one, or it throws
Transcribed(result) ==
    /\ pc = "transcribe"
    /\ IF result = "text"
       THEN /\ pc' = "chat"
            /\ GoOn({"transcript-user"})
            /\ history' = slice(push(history))
            /\ roles' = slice(Append(roles, "user"))
            /\ chatRequest' = history'
       ELSE /\ EndTurn(IF result = "empty" THEN "empty" ELSE "failed")
            /\ UNCHANGED chatRequest
    /\ failed' = IF result = "fail" THEN "transcribe" ELSE "none"
    /\ emitted' = <<>>
    /\ UNCHANGED <<turn, stream, sentenceBuffer, fullResponse, synths, timers, streamAll,
                   submitted, lastFrame>>
    /\ PipelineStep

\* the chat completion request answers
ChatResponse(ok) ==
    /\ pc = "chat"
    /\ IF ok
       THEN /\ pc' = "read"
            /\ stream' = streamAll
            /\ sentenceBuffer' = <<>>
            /\ fullResponse' = <<>>
            /\ GoOn({})
            /\ UNCHANGED <<history, roles>>
       ELSE /\ EndTurn("failed")
            /\ UNCHANGED <<stream, sentenceBuffer, fullResponse>>
    /\ failed' = IF ok THEN "none" ELSE "generate"
    /\ emitted' = <<>>
    /\ UNCHANGED chatRequest
    /\ UNCHANGED <<turn, synths, timers, streamAll, submitted, lastFrame>>
    /\ PipelineStep

\* reader.read() of the generation stream returns a token
ReadToken ==
    /\ pc = "read"
    /\ stream # <<>>
    /\ stream' = Tail(stream)
    /\ fullResponse' = fullResponse \o Head(stream)
    /\ LET buf == sentenceBuffer \o Head(stream)
       IN IF SENTENCE_ENDINGS(buf)
          THEN /\ sentenceBuffer' = <<>>
               /\ IF trim(buf) # <<>>
                  THEN Submit(trim(buf), FALSE)
                  ELSE UNCHANGED <<submitted, synths, pc>>
          ELSE /\ sentenceBuffer' = buf
               /\ UNCHANGED <<submitted, synths, pc>>
    /\ emitted' = <<>>
    /\ events' = {}
    /\ failed' = "none"
    /\ UNCHANGED <<isProcessing, turn, timers, streamAll, turnOutcome, lastFrame,
                   history, roles, chatRequest>>
    /\ PipelineStep

\* reader.read() of the generation stream returns done
ReadDone ==
    /\ pc = "read"
    /\ stream = <<>>
    /\ IF trim(sentenceBuffer) # <<>>
       THEN /\ Submit(trim(sentenceBuffer), TRUE)
            /\ GoOn({})
            /\ UNCHANGED <<history, roles>>
       ELSE /\ EndTurn("ok")
            /\ UNCHANGED <<submitted, synths>>
    /\ failed' = "none"
    /\ emitted' = <<>>
    /\ UNCHANGED chatRequest
    /\ UNCHANGED <<turn, stream, sentenceBuffer, fullResponse, timers, streamAll, lastFrame>>
    /\ PipelineStep

\* the synthesis call s is the one generateAndSpeakResponse is awaiting
Awaited(s) ==
    /\ pc \in {"awaitSynth", "awaitLast"}
    /\ s.turn = turn
    /\ s.sent = Len(submitted)

\* synthesizeSpeechStreaming returns: the awaiting loop goes on reading, the
\* await after the loop goes on to the end of the turn
SynthReturns(s) ==
    /\ synths' = synths \ {s}
    /\ IF Awaited(s) /\ pc = "awaitLast"
       THEN EndTurn("ok")
       ELSE /\ pc' = IF Awaited(s) THEN "read" ELSE pc
            /\ GoOn({})
            /\ UNCHANGED <<history, roles>>

\* synthesizeSpeechStreaming throws: inside the token loop the catch of the
\* JSON.parse block swallows it, after the loop it ends the turn
SynthThrows(s) ==
    /\ synths' = synths \ {s}
    /\ IF Awaited(s) /\ pc = "awaitLast"
       THEN EndTurn("failed")
       ELSE /\ pc' = IF Awaited(s) THEN "read" ELSE pc
            /\ GoOn({})
            /\ UNCHANGED <<history, roles>>

\* n frames of targetChunkSize bytes of synthesis s, from byte offset from
Frames(s, from, n) ==
    [k \in 1..n |-> [turn |-> s.turn, sent |-> s.sent,
                     from |-> from + (k - 1) * targetChunkSize,
                     to |-> from + k * targetChunkSize]]

\* onAudioResponse for each of the frames
Emit(s, frames) ==
    /\ emitted' = frames
    /\ lastFrame' = IF frames = <<>> THEN lastFrame
                    ELSE [turn |-> s.turn, sent |-> s.sent,
                          to |-> frames[Len(frames)].to]

\* the speech request of synthesis s answers
TtsResponse(s, ok) ==
    /\ s \in synths
    /\ s.phase = "fetch"
    /\ IF ok
       THEN /\ synths' = (synths \ {s}) \cup {[s EXCEPT !.phase = "read"]}
            /\ GoOn({})
            /\ UNCHANGED <<pc, history, roles>>
       ELSE SynthThrows(s)
    /\ failed' = IF ok THEN "none" ELSE "synthesize"
    /\ Emit(s, <<>>)
    /\ UNCHANGED chatRequest
    /\ UNCHANGED <<turn, stream, sentenceBuffer, fullResponse, timers, streamAll, submitted>>
    /\ PipelineStep

\* reader.read() of synthesis s returns a value of len bytes: the frames
\* that are complete are sent
TtsValue(s, len) ==
    /\ s \in synths
    /\ s.phase = "read"
    /\ s.reads < MaxReads
    /\ LET total == s.totalLength + len
           n == (total - s.bytesSent) \div targetChunkSize
       IN /\ synths' = (synths \ {s}) \cup
                           {[s EXCEPT !.totalLength = total,
                                      !.bytesSent = @ + n * targetChunkSize,
                                      !.reads = @ + 1]}
          /\ Emit(s, Frames(s, s.bytesSent, n))
    /\ GoOn({})
    /\ failed' = "none"
    /\ UNCHANGED <<pc, history, roles, chatRequest>>
    /\ UNCHANGED <<turn, stream, sentenceBuffer, fullResponse, timers, streamAll, submitted>>
    /\ PipelineStep

\* reader.read() of synthesis s returns done: the rest is sent, cut to an
\* even number of bytes
TtsDone(s) ==
    /\ s \in synths
    /\ s.phase = "read"
    /\ LET remaining == s.totalLength - s.bytesSent
       IN Emit(s, IF alignedRemaining(remaining) > 0
                  THEN <<[turn |-> s.turn, sent |-> s.sent, from |-> s.bytesSent,
                          to |-> s.bytesSent + alignedRemaining(remaining)]>>
                  ELSE <<>>)
    /\ SynthReturns(s)
    /\ failed' = "none"
    /\ UNCHANGED chatRequest
    /\ UNCHANGED <<turn, stream, sentenceBuffer, fullResponse, timers, streamAll, submitted>>
    /\ PipelineStep

\* reader.read() of synthesis s rejects
TtsReadFails(s) ==
    /\ s \in synths
    /\ s.phase = "read"
    /\ SynthThrows(s)
    /\ failed' = "read"
    /\ Emit(s, <<>>)
    /\ UNCHANGED chatRequest
    /\ UNCHANGED <<turn, stream, sentenceBuffer, fullResponse, timers, streamAll, submitted>>
    /\ PipelineStep

\* the decomposed adapter is connected and idle; the provider will deliver
\* Text in some split into tokens
InitPipeline ==
    /\ mode = "single"
    /\ primaryAgent = STT
    /\ activeAgents = <<STT>>
    /\ sampleRate = getAgentSampleRate(STT)
    /\ agentStatuses = [a \in AgentType |-> IF a = STT THEN "connected" ELSE "disconnected"]
    /\ agents = {STT}
    /\ clientWs = "open"
    /\ inSessions = TRUE
    /\ lastStatus = Current
    /\ status = agentStatuses
    /\ ws = Zero
    /\ conns = <<[agent |-> STT, phase |-> "done", promise |-> "resolved",
                  timer |-> FALSE]>>
    /\ handlers = {}
    /\ audioBuffer = <<>>
    /\ silenceTimeout = 0
    /\ timeouts = {}
    /\ transcribed = {}
    /\ isProcessing = FALSE
    /\ agentId = TRUE
    /\ msgCount = 0
    /\ lastCtl = "none"
    /\ nextFrame = 0
    /\ dualTrail = "none"
    /\ instances = [a \in AgentType |-> IF a = STT THEN 1 ELSE 0]
    /\ reused = {}
    /\ got = [a \in AgentType |-> {}]
    /\ missed = [a \in AgentType |-> {}]
    /\ calls = Zero
    /\ disc = Zero
    /\ commits = 0
    /\ sent = {}
    /\ teardown = Zero
    /\ errors = Zero
    /\ \E tokens \in TokenStreams : \E h \in HistoryStarts :
           PipelineInit(tokens, MaxTurns, [k \in 1..h |-> k])

\* ws.on('close') of the client connection while the pipeline is at work:
\* the adapter is disconnected, the turn in flight is not touched
PipelineClientClose ==
    /\ clientWs = "open"
    /\ clientWs' = "closed"
    /\ inSessions' = FALSE
    /\ msgCount' = msgCount
    /\ lastCtl' = "none"
    /\ CommitSession(DisconnectAll([CurW EXCEPT !.clientOpen = FALSE]))
    /\ events' = {}
    /\ emitted' = <<>>
    /\ failed' = "none"
    /\ UNCHANGED <<routing, isProcessing, agentId, nextFrame, dualTrail>>
    /\ UNCHANGED <<pc, turn, stream, sentenceBuffer, fullResponse, synths, timers, streamAll,
                   submitted, turnOutcome, lastFrame, history, chatRequest,
                   roles, log>>
    /\ UNCHANGED chunkVars

NextPipeline ==
    \/ PipelineClientClose
    \/ TimerFires
    \/ \E result \in {"text", "empty", "fail"} : Transcribed(result)
    \/ \E ok \in BOOLEAN : ChatResponse(ok)
    \/ ReadToken
    \/ ReadDone
    \/ \E s \in synths : \E ok \in BOOLEAN : TtsResponse(s, ok)
    \/ \E s \in synths : \E len \in ReadLens : TtsValue(s, len)
    \/ \E s \in synths : TtsDone(s)
    \/ \E s \in synths : TtsReadFails(s)

SpecPipeline == InitPipeline /\ [][NextPipeline]_vars

\* ------------------------------------------- re-chunking of one synthesis
\* synthesizeSpeechStreaming from its first reader.read() on, with the
\* bytes told apart.  A delivery is known by its length, its bytes by their
\* place in it: chunks[k] is the length of the k-th value pushed, and a part
\* [chunk |-> k, from |-> a, to |-> b] is bytes a..b-1 of it.  A Uint8Array
\* is [length, parts]: the parts copied into it from index 0 on, and zeros
\* up to its length.

\* the byte lengths of the values reader.read() may return
DeliveryLens == {0, 1, 3, 4800, 9000}

Max(a, b) == IF a >= b THEN a ELSE b

Min(a, b) == IF a <= b THEN a ELSE b

\* faulty variant: every chunk is copied from its first byte
startInChunk_zero(offset, currentOffset) == 0

\* startInChunk of extractChunk
startInChunk(offset, currentOffset) == Max(0, offset - currentOffset)

\* the for loop of extractChunk from chunk k on, currentOffset being the
\* offset of that chunk in the stream: the parts result.set copies
RECURSIVE extractLoop(_, _, _, _, _)
extractLoop(chunks, offset, length, k, currentOffset) ==
    IF k > Len(chunks) THEN <<>>
    ELSE LET chunkEnd == currentOffset + chunks[k]
         IN IF chunkEnd <= offset
            THEN extractLoop(chunks, offset, length, k + 1, chunkEnd)
            ELSE IF currentOffset >= offset + length THEN <<>>
            ELSE LET start == startInChunk(offset, currentOffset)
                     endInChunk == Min(chunks[k], offset + length - currentOffset)
                     copyLength == endInChunk - start
                 IN (IF copyLength > 0
                     THEN <<[chunk |-> k, from |-> start, to |-> endInChunk]>>
                     ELSE <<>>)
                    \o extractLoop(chunks, offset, length, k + 1, chunkEnd)

\* extractChunk(chunks, offset, length): a new Uint8Array(length)
extractChunk(chunks, offset, length) ==
    [length |-> length, parts |-> extractLoop(chunks, offset, length, 1, 0)]

\* the number of bytes in a sequence of parts
RECURSIVE PartsLen(_)
PartsLen(parts) ==
    IF parts = <<>> THEN 0
    ELSE (Head(parts).to - Head(parts).from) + PartsLen(Tail(parts))

\* the parts of bytes begin..end-1 of a sequence of parts that starts at
\* byte at
RECURSIVE Clip(_, _, _, _)
Clip(parts, at, begin, end) ==
    IF parts = <<>> THEN <<>>
    ELSE LET p == Head(parts)
             n == p.to - p.from
             a == Max(begin, at)
             b == Min(end, at + n)
         IN (IF a < b
             THEN <<[chunk |-> p.chunk, from |-> p.from + (a - at),
                     to |-> p.from + (b - at)]>>
             ELSE <<>>)
            \o Clip(Tail(parts), at + n, begin, end)

\* chunk.buffer.slice(chunk.byteOffset, chunk.byteOffset + chunk.byteLength)
\* of a Uint8Array that owns its buffer (byteOffset 0): the ArrayBuffer
\* passed to onAudioResponse
bufferSlice(chunk) ==
    LET byteOffset == 0
        begin == Min(byteOffset, chunk.length)
        end == Min(byteOffset + chunk.length, chunk.length)
    IN [length |-> Max(end - begin, 0), parts |-> Clip(chunk.parts, 0, begin, end)]

\* the inner while loop: a frame for every targetChunkSize bytes not yet sent
RECURSIVE sendFrames(_)
sendFrames(t) ==
    IF t.totalLength - t.bytesSent >= targetChunkSize
    THEN sendFrames([t EXCEPT
             !.out = Append(@, bufferSlice(extractChunk(t.chunks, t.bytesSent,
                                                        targetChunkSize))),
             !.bytesSent = @ + targetChunkSize])
    ELSE t

\* reader.read() returns a value of len bytes
ChunkRead(len) ==
    /\ tts.phase = "read"
    /\ tts.reads < MaxDeliveries
    /\ tts' = IF len > 0
              THEN sendFrames([tts EXCEPT !.chunks = Append(@, len),
                                          !.totalLength = @ + len,
                                          !.reads = @ + 1])
              ELSE [tts EXCEPT !.reads = @ + 1]
    /\ UNCHANGED <<sessionVars, pipelineVars, isProcessing, toClient, srv, keepAlive>>

\* reader.read() returns done: the remainder is sent, cut to an even length
ChunkDone ==
    /\ tts.phase = "read"
    /\ LET remaining == tts.totalLength - tts.bytesSent
           aligned == alignedRemaining(remaining)
       IN tts' = [tts EXCEPT
              !.phase = "done",
              !.out = IF remaining > 0 /\ aligned > 0
                      THEN Append(@, bufferSlice(extractChunk(tts.chunks,
                                                     tts.bytesSent, aligned)))
                      ELSE @]
    /\ UNCHANGED <<sessionVars, pipelineVars, isProcessing, toClient, srv, keepAlive>>

\* a synthesis response about to be read, in a connected idle adapter
InitChunk == InitPipeline

NextChunk ==
    \/ \E len \in DeliveryLens : ChunkRead(len)
    \/ ChunkDone

SpecChunk == InitChunk /\ [][NextChunk]_vars

\* ------------------------------------------------- the server's sessions
\* Several client connections at once, with the objects of the server told
\* apart by their addresses: srv.states holds the SessionState objects,
\* srv.objs the ExtendedSession objects, srv.adapters the adapter instances,
\* srv.clients the client sockets, srv.sessions is the module's sessions
\* Map.  An adapter is reduced to its status and the frames it was given.

\* an object literal or a "new": the address of a fresh object
newObject(heap) == Len(heap) + 1

\* faulty variant: createSessionState hands out one shared object
newSessionState_shared(heap) == 1

\* the object literal createSessionState returns
newSessionState(heap) == newObject(heap)

\* the heap with object o at address r
Store(heap, r, o) ==
    [k \in 1..Max(Len(heap), r) |-> IF k = r THEN o ELSE heap[k]]

\* createSessionState(id)
createSessionState(id) ==
    [id |-> id, mode |-> "single", activeAgents |-> <<V2V>>,
     primaryAgent |-> V2V,
     agentStatuses |-> [a \in AgentType |-> "disconnected"],
     sampleRate |-> getAgentSampleRate(V2V)]

\* the server at the start of a step: what the step did is yet to be noted
CurS == [srv EXCEPT !.sentTo = {}, !.actor = 0]

\* sendStatus(session.clientWs, session.state) of the session at address i
sessionSendStatus(S, i) ==
    LET c == S.objs[i].clientWs
    IN IF S.clients[c] = "open" THEN [S EXCEPT !.sentTo = @ \cup {c}] ELSE S

\* setStatus of the adapter at address r, with the onStatusChange callback
\* createAgent gave it: the callback writes to the session it has captured
sessionSetStatus(S, r, s) ==
    LET i == S.adapters[r].session
        st == S.objs[i].state
        S1 == [S EXCEPT !.adapters[r].status = s,
                        !.states[st].agentStatuses[S.adapters[r].type] = s]
    IN sessionSendStatus(S1, i)

\* getOrCreateAgent(session, type) for the session at address i
sessionGetOrCreateAgent(S, i, type) ==
    IF S.objs[i].agents[type] # 0 THEN S
    ELSE LET r == newObject(S.adapters)
         IN [S EXCEPT !.adapters = Store(@, r, [type |-> type, session |-> i,
                                                  status |-> "disconnected",
                                                  frames |-> 0]),
                      !.objs[i].agents[type] = r]

\* agent.connect() up to its first await
sessionConnect(S, r) == sessionSetStatus(S, r, "connecting")

\* getOrCreateAgent, and connect() if the agent is disconnected, for the
\* agents of seq in turn
RECURSIVE sessionConnectEach(_, _, _)
sessionConnectEach(S, i, seq) ==
    IF seq = <<>> THEN S
    ELSE LET S1 == sessionGetOrCreateAgent(S, i, Head(seq))
             r == S1.objs[i].agents[Head(seq)]
         IN sessionConnectEach(IF S1.adapters[r].status = "disconnected"
                               THEN sessionConnect(S1, r) ELSE S1,
                               i, Tail(seq))

\* agent.disconnect() for every agent in the session's map
RECURSIVE sessionDisconnectEach(_, _, _)
sessionDisconnectEach(S, i, seq) ==
    IF seq = <<>> THEN S
    ELSE LET r == S.objs[i].agents[Head(seq)]
         IN sessionDisconnectEach(IF r # 0 THEN sessionSetStatus(S, r, "disconnected")
                                  ELSE S,
                                  i, Tail(seq))

\* the audio loop of ws.on('message') for the agents of seq in turn
RECURSIVE sessionRouteEach(_, _, _)
sessionRouteEach(S, i, seq) ==
    IF seq = <<>> THEN S
    ELSE LET r == S.objs[i].agents[Head(seq)]
         IN sessionRouteEach(IF r # 0 /\ S.adapters[r].status = "connected"
                             THEN [S EXCEPT !.adapters[r].frames = 1]
                             ELSE S,
                             i, Tail(seq))

\* the step of session i ends
ServerStep(S, i) ==
    /\ srv' = [S EXCEPT !.actor = i, !.ops = @ + 1]
    /\ UNCHANGED <<sessionVars, pipelineVars, tts, isProcessing, toClient, keepAlive>>

\* session i has a handler that can run: its client socket is open
Live(i) ==
    /\ srv.ops < MaxOps
    /\ i \in DOMAIN srv.objs
    /\ srv.clients[srv.objs[i].clientWs] = "open"

\* wss.on('connection'): a client connects and gets its session
Connection(id) ==
    /\ srv.ops < MaxOps
    /\ Len(srv.objs) < MaxSessions
    /\ LET c == newObject(srv.clients)
           st == newSessionState(srv.states)
           i == newObject(srv.objs)
           S1 == [CurS EXCEPT
                     !.clients = Store(@, c, "open"),
                     !.states = Store(@, st, createSessionState(id)),
                     !.objs = Store(@, i, [state |-> st,
                                            agents |-> [a \in AgentType |-> 0],
                                            clientWs |-> c]),
                     !.sessions[id] = i]
       IN ServerStep(sessionSendStatus(S1, i), i)

\* the client of session i sends start
ServerStart(i) ==
    /\ Live(i)
    /\ LET st == srv.objs[i].state
       IN ServerStep(sessionSendStatus(
              sessionConnectEach(CurS, i, <<srv.states[st].primaryAgent>>), i), i)

\* the client of session i sends stop
ServerStop(i) ==
    /\ Live(i)
    /\ ServerStep(sessionSendStatus(
           sessionDisconnectEach(CurS, i, <<V2V, STT, EL>>), i), i)

\* the client of session i sends swap with payload.agent
ServerSwap(i, newAgentType) ==
    /\ Live(i)
    /\ LET st == srv.objs[i].state
           S1 == [CurS EXCEPT
                     !.states[st].primaryAgent = newAgentType,
                     !.states[st].activeAgents =
                         SwapActive(srv.states[st].mode, @, newAgentType),
                     !.states[st].sampleRate = getAgentSampleRate(newAgentType)]
       IN ServerStep(sessionSendStatus(
              sessionConnectEach(S1, i, <<newAgentType>>), i), i)

\* the client of session i sends toggle-dual with payload.enabled
ServerToggleDual(i, enabled) ==
    /\ Live(i)
    /\ LET st == srv.objs[i].state
           S1 == [CurS EXCEPT
                     !.states[st].mode = IF enabled THEN "dual" ELSE "single",
                     !.states[st].activeAgents =
                         ToggleActive(enabled, srv.states[st].primaryAgent)]
       IN ServerStep(sessionSendStatus(
              IF enabled THEN sessionConnectEach(S1, i, DualAgents) ELSE S1, i), i)

\* the client of session i sends a binary frame
ServerAudio(i) ==
    /\ Live(i)
    /\ LET st == srv.objs[i].state
       IN ServerStep(sessionRouteEach(CurS, i, srv.states[st].activeAgents), i)

\* the connect() of the adapter at address r settles: connected or error
AdapterSettles(r, s) ==
    /\ srv.ops < MaxOps
    /\ r \in DOMAIN srv.adapters
    /\ srv.adapters[r].status = "connecting"
    /\ ServerStep(sessionSetStatus(CurS, r, s), srv.adapters[r].session)

\* ws.on('close') of the client of session i
ServerClose(i) ==
    /\ Live(i)
    /\ LET S1 == [CurS EXCEPT !.clients[srv.objs[i].clientWs] = "closed"]
           S2 == sessionDisconnectEach(S1, i, <<V2V, STT, EL>>)
       IN ServerStep([S2 EXCEPT !.sessions[srv.states[srv.objs[i].state].id] = 0], i)

\* the server has started: no client has connected
InitSessions == Init

NextSessions ==
    \/ \E id \in SessionIds : Connection(id)
    \/ \E i \in DOMAIN srv.objs : ServerStart(i)
    \/ \E i \in DOMAIN srv.objs : ServerStop(i)
    \/ \E i \in DOMAIN srv.objs : \E a \in AgentType : ServerSwap(i, a)
    \/ \E i \in DOMAIN srv.objs : \E enabled \in BOOLEAN : ServerToggleDual(i, enabled)
    \/ \E i \in DOMAIN srv.objs : ServerAudio(i)
    \/ \E r \in DOMAIN srv.adapters : \E s \in {"connected", "error"} : AdapterSettles(r, s)
    \/ \E i \in DOMAIN srv.objs : ServerClose(i)

SpecSessions == InitSessions /\ [][NextSessions]_vars

\* ------------------------------------------- the third-party keep-alive
\* ElevenLabsAgent.handleJsonMessage, case 'ping', on top of the adapter's
\* connections: keepAlive.timers are the pong timers set and not yet fired,
\* each with the event_id and ping_ms of its ping, the connection the ping
\* came on and the time waited so far; keepAlive.log are the pongs sent,
\* each with the connection it was sent on and that of its ping.

\* the ping_ms a ping may ask for, in ticks of the clock
PingDelays == {0, 1}

\* the provider sends a ping on connection i: the pong timer is set if
\* this.ws is open
ElPing(i, ping_ms) ==
    /\ keepAlive.pings < MaxPings
    /\ conns[i].agent = EL
    /\ conns[i].phase = "open"
    /\ keepAlive' = [keepAlive EXCEPT
           !.pings = @ + 1,
           !.timers = IF wsOpen(CurW, EL)
                      THEN @ \cup {[event_id |-> keepAlive.pings + 1,
                                    ping_ms |-> ping_ms, conn |-> i, age |-> 0]}
                      ELSE @]
    /\ UNCHANGED <<sessionVars, pipelineVars, isProcessing, toClient, tts, srv>>

\* time passes
Tick ==
    /\ \E t \in keepAlive.timers : t.age < t.ping_ms
    /\ keepAlive' = [keepAlive EXCEPT
           !.timers = {[t EXCEPT !.age = IF @ < t.ping_ms THEN @ + 1 ELSE @] :
                       t \in keepAlive.timers}]
    /\ UNCHANGED <<sessionVars, pipelineVars, isProcessing, toClient, tts, srv>>

\* the pong timer t fires: the pong goes out on this.ws if that is open
PongTimer(t) ==
    /\ t \in keepAlive.timers
    /\ t.age >= t.ping_ms
    /\ keepAlive' = [keepAlive EXCEPT
           !.timers = @ \ {t},
           !.log = IF wsOpen(CurW, EL)
                   THEN Append(@, [event_id |-> t.event_id, on |-> ws[EL],
                                   conn |-> t.conn, waited |-> t.age])
                   ELSE @]
    /\ UNCHANGED <<sessionVars, pipelineVars, isProcessing, toClient, tts, srv>>

\* a fresh session whose client picks the third-party agent
InitKeepAlive == Init

NextKeepAlive ==
    \/ CtlSwap(EL)
    \/ CtlStart
    \/ CtlStop
    \/ \E i \in DOMAIN conns : ElSignedUrlOk(i)
    \/ \E i \in DOMAIN conns : ElSignedUrlFail(i)
    \/ \E i \in DOMAIN conns : ElWsOpen(i)
    \/ \E i \in DOMAIN conns : ElWsError(i)
    \/ \E i \in DOMAIN conns : ElWsClose(i)
    \/ \E i \in DOMAIN conns : ConnectionTimeout(i)
    \/ \E i \in DOMAIN conns : \E ping_ms \in PingDelays : ElPing(i, ping_ms)
    \/ Tick
    \/ \E t \in keepAlive.timers : PongTimer(t)

SpecKeepAlive == InitKeepAlive /\ [][NextKeepAlive]_vars

\* ------------------------------------------------------------ properties
TypeOK ==
    /\ mode \in {"single", "dual"}
    /\ primaryAgent \in AgentType
    /\ Range(activeAgents) \subseteq AgentType
    /\ status \in [AgentType -> AgentStatus]
    /\ agentStatuses = status
    /\ agents \subseteq AgentType
    /\ \A a \in AgentType : ws[a] \in 0..Len(conns)
    /\ \A h \in handlers : h.conn \in DOMAIN conns

\* C1: after every control message primaryAgent is a member of activeAgents.
C1_PrimaryInActive ==
    primaryAgent \in Range(activeAgents)

\* C2: in every reachable state sampleRate is the sample rate required by
\* the current primaryAgent.
C2_SampleRateOfPrimary ==
    sampleRate = getAgentSampleRate(primaryAgent)

\* C3: in single mode activeAgents holds exactly one agent, in dual mode it
\* is exactly the pair openai-v2v, elevenlabs.
C3_ModeShape ==
    /\ mode = "single" => Len(activeAgents) = 1
    /\ mode = "dual" => activeAgents = DualAgents

\* a swap has just been handled in dual mode
C3_Witness ==
    /\ lastCtl = "swap"
    /\ mode = "dual"
    /\ primaryAgent = STT

\* C4: at most one adapter instance is ever created per agent type.
C4_OneInstancePerType ==
    \A a \in AgentType : instances[a] <= 1

\* swap(elevenlabs), swap(openai-v2v), swap(elevenlabs): the third swap found
\* the instance of the first, while an earlier handler is still in flight
C4_Witness ==
    /\ lastCtl = "swap"
    /\ EL \in reused
    /\ V2V \in agents
    /\ handlers # {}
    /\ instances[EL] = 1

\* C5: a binary frame is passed to sendAudio of exactly the adapters that
\* are in activeAgents, created and connected when it arrives, once each.
C5_RouteExactlyConnected ==
    [][nextFrame' # nextFrame =>
          \A a \in AgentType :
              calls'[a] = IF /\ a \in Range(activeAgents)
                             /\ a \in agents
                             /\ status[a] = "connected"
                          THEN 1 ELSE 0]_vars

\* a frame has just been routed in dual mode: openai-v2v got it, elevenlabs,
\* created but not connected, did not
C5_Witness ==
    /\ mode = "dual"
    /\ calls[V2V] = 1
    /\ calls[EL] = 0
    /\ EL \in agents
    /\ status[EL] # "connected"

\* C6: a frame that arrived while an active agent was not connected is
\* never passed to that adapter, and never sits in the decomposed adapter's
\* buffer, at any later time.
C6_NoReplay ==
    /\ \A a \in AgentType : got[a] \cap missed[a] = {}
    /\ Range(audioBuffer) \cap missed[STT] = {}

\* an adapter missed a frame, became connected, and got a later frame only
C6_Witness ==
    \E a \in AgentType :
        \E f \in missed[a] :
            \E g \in got[a] : f < g /\ status[a] = "connected"

\* C7: toggle-dual(true), then swaps and mic-releases, then
\* toggle-dual(false) leaves mode single and activeAgents = <<primaryAgent>>.
C7_DualOffRestores ==
    dualTrail \in {"off", "offSwap"} =>
        /\ mode = "single"
        /\ activeAgents = <<primaryAgent>>

\* dual mode was left after a swap to an agent outside the dual pair
C7_Witness ==
    /\ dualTrail = "offSwap"
    /\ primaryAgent = STT

\* C8 as claimed: once the session is disconnected, every owned adapter has
\* received exactly one disconnect() call since it was last connected.
C8_ExactlyOneDisconnect ==
    clientWs = "closed" => \A a \in agents : teardown[a] = 1

\* C8 as amended: the stop branch and the close handler each call
\* disconnect() exactly once on every adapter the session owns at that
\* moment, whatever its status, and on no other.
C8_OneDisconnectPerEvent ==
    [][(lastCtl' = "stop" \/ (clientWs = "open" /\ clientWs' = "closed")) =>
          \A a \in AgentType : disc'[a] = IF a \in agents THEN 1 ELSE 0]_vars

\* the connection has just closed after a stop: both adapters, already
\* disconnected by the stop, were called again
C8_Witness ==
    /\ clientWs = "closed"
    /\ disc[V2V] = 1
    /\ disc[EL] = 1
    /\ teardown[V2V] = 2

\* nothing of the session is still in flight
Settled ==
    /\ handlers = {}
    /\ \A i \in DOMAIN conns :
           /\ conns[i].phase \in {"open", "closed", "done"}
           /\ ~conns[i].timer

\* C9: after the client connection has closed and everything in flight has
\* settled, no adapter holds an open transport and none is connecting or
\* connected.
C9_NoOrphanAfterClose ==
    (clientWs = "closed" /\ Settled) =>
        /\ \A i \in DOMAIN conns : conns[i].phase # "open"
        /\ \A a \in agents : status[a] \notin {"connecting", "connected"}

AllowedTransitions ==
    {<<"disconnected", "connecting">>, <<"connecting", "connected">>,
     <<"connecting", "error">>, <<"connected", "disconnected">>,
     <<"error", "disconnected">>}

\* C10: every status change of every adapter is one of disconnected ->
\* connecting, connecting -> connected, connecting -> error, connected ->
\* disconnected, error -> disconnected.
C10_StatusTransitions ==
    [][\A a \in AgentType :
          status'[a] # status[a] => <<status[a], status'[a]>> \in AllowedTransitions]_vars


\* what disconnect() can change of adapter a: its status, its this.ws, the
\* sockets' phases and, for the decomposed adapter, buffer and idle timer
AdapterView(W, a) ==
    [status |-> W.status[a], ws |-> W.ws[a],
     phases |-> [i \in DOMAIN W.conns |-> W.conns[i].phase],
     audioBuffer |-> IF a = STT THEN W.audioBuffer ELSE <<>>,
     silenceTimeout |-> IF a = STT THEN W.silenceTimeout ELSE 0,
     timeouts |-> IF a = STT THEN W.timeouts ELSE {}]

\* C11: from every reachable state, disconnect() leaves the adapter with
\* status disconnected and no transport (the decomposed adapter with an
\* empty buffer and no idle timer), and a second disconnect() right after
\* it changes nothing.
C11_DisconnectIdempotent ==
    \A a \in AgentType :
        LET W1 == disconnect(CurW, a)
            W2 == disconnect(W1, a)
        IN /\ W1.status[a] = "disconnected"
           /\ W1.ws[a] = 0
           /\ a = STT => /\ W1.audioBuffer = <<>>
                         /\ W1.silenceTimeout = 0
                         /\ W1.timeouts = {}
           /\ AdapterView(W2, a) = AdapterView(W1, a)

\* the close handler has just disconnected the decomposed adapter, which the
\* stop branch had disconnected before; the realtime adapter's connect is
\* still in flight
C11_Witness ==
    /\ clientWs = "closed"
    /\ disc[STT] = 1
    /\ teardown[STT] = 2
    /\ status[STT] = "disconnected"
    /\ status[V2V] = "disconnected"
    /\ \E i \in DOMAIN conns : conns[i].agent = V2V /\ conns[i].phase = "aborted"


\* C12: the step in which a connect() attempt fails, with the client
\* connected, sends the client exactly one error message tagged with the
\* agent, and the status it sends shows the agent in status error.
C12_OneErrorPerFailure ==
    [][clientWs = "open" =>
          /\ \A i \in DOMAIN conns :
                 (conns[i].promise = "pending" /\ conns'[i].promise = "rejected") =>
                     /\ errors'[conns[i].agent] = 1
                     /\ agentStatuses'[conns[i].agent] = "error"
          /\ (~agentId /\ status[EL] # "error" /\ status'[EL] = "error") =>
                 /\ errors'[EL] = 1
                 /\ agentStatuses'[EL] = "error"]_vars

\* C13: a failed connect is not fatal to the session: the step that rejects
\* a connect() attempt leaves the client connection and the session table
\* as they are and runs the control handler that awaited the attempt to its
\* end; and a later start whose primary agent is in status error attempts
\* connect again.
C13_FailureNotFatal ==
    [][/\ \A i \in DOMAIN conns :
              (conns[i].promise = "pending" /\ conns'[i].promise = "rejected") =>
                  /\ clientWs' = clientWs
                  /\ inSessions' = inSessions
                  /\ routing' = routing
                  /\ \A h \in handlers' : h.conn # i
       /\ (lastCtl' = "start" /\ status[primaryAgent] = "error") =>
              \/ /\ status'[primaryAgent] = "connecting"
                 /\ Len(conns') = Len(conns) + 1
              \/ primaryAgent = EL /\ ~agentId /\ status'[EL] = "error"]_vars

\* start was retried after its first connect attempt had been rejected, and
\* the second attempt is under way
C13_Witness ==
    /\ lastCtl = "start"
    /\ clientWs = "open"
    /\ inSessions
    /\ Len(conns) = 2
    /\ conns[1].agent = primaryAgent /\ conns[1].promise = "rejected"
    /\ conns[2].agent = primaryAgent /\ conns[2].promise = "pending"
    /\ status[primaryAgent] = "connecting"


\* C14: in dual mode one agent's failure leaves the other alone.  When the
\* connect that toggle-dual awaits for openai-v2v is rejected, elevenlabs'
\* connect is attempted all the same; an event of one agent's connection
\* changes neither status nor transport of another agent (other than by
\* starting that connect); and a frame or a mic-release reaches a connected
\* agent of the pair whatever the other's status.
C14_DualIsolation ==
    [][/\ \A i \in DOMAIN conns :
              (/\ conns[i].promise = "pending" /\ conns'[i].promise = "rejected"
               /\ [kind |-> "toggle-dual", conn |-> i, at |-> 1] \in handlers
               /\ status[EL] = "disconnected") =>
                  /\ EL \in agents'
                  /\ status'[EL] = "connecting" \/ (~agentId /\ status'[EL] = "error")
       /\ \A i \in DOMAIN conns :
              (/\ conns'[i] # conns[i]
               /\ lastCtl' = "none" /\ clientWs' = clientWs /\ nextFrame' = nextFrame) =>
                  \A b \in AgentType \ {conns[i].agent} :
                      /\ ws'[b] = ws[b]
                      /\ \/ status'[b] = status[b]
                         \/ /\ b = EL /\ status[b] = "disconnected"
                            /\ \E h \in handlers \ handlers' :
                                   h.kind = "toggle-dual" /\ h.conn = i
       /\ (nextFrame' # nextFrame /\ mode = "dual") =>
              \A b \in Range(DualAgents) :
                  (b \in agents /\ status[b] = "connected") => calls'[b] = 1
       /\ (/\ lastCtl' = "mic-release" /\ mode = "dual"
           /\ V2V \in agents /\ status[V2V] = "connected" /\ wsOpen(CurW, V2V)) =>
              commits' = 1]_vars

\* dual mode with openai-v2v failed: elevenlabs was connected after the
\* failure and has just been given a frame that openai-v2v was not given
C14_Witness ==
    /\ mode = "dual"
    /\ \E i \in DOMAIN conns : conns[i].agent = V2V /\ conns[i].promise = "rejected"
    /\ status[V2V] \in {"error", "disconnected"}
    /\ status[EL] = "connected"
    /\ calls[EL] = 1
    /\ calls[V2V] = 0


\* C15: when dual mode is enabled the connect of elevenlabs is initiated
\* without waiting for the connect of openai-v2v to settle: once toggle-dual
\* has been received, elevenlabs is not left disconnected while the connect
\* of openai-v2v that the handler started is pending.
C15_ConcurrentDualConnect ==
    \A h \in handlers :
        (h.kind = "toggle-dual" /\ conns[h.conn].agent = V2V
                                /\ conns[h.conn].promise = "pending") =>
            /\ EL \in agents
            /\ status[EL] # "disconnected"


\* a network call of some adapter is suspended
InFlight ==
    \/ isProcessing
    \/ \E i \in DOMAIN conns : conns[i].promise = "pending"

C17_SwapKeepsAdapters ==
    [][lastCtl' = "swap" =>
          /\ disc' = Zero
          /\ \A a \in AgentType \ {primaryAgent'} :
                 status'[a] = status[a] /\ ws'[a] = ws[a]
          /\ \A i \in DOMAIN conns : conns'[i] = conns[i]]_vars

\* the realtime adapter is still connected, with its socket open, after a
\* swap away from it
C17_Witness ==
    /\ lastCtl = "swap"
    /\ primaryAgent = STT
    /\ activeAgents = <<STT>>
    /\ status[V2V] = "connected"
    /\ wsOpen(CurW, V2V)


\* C18: a sentence is submitted to synthesis without waiting for the
\* synthesis to finish: while a synthesis of the turn is in flight and the
\* generation stream has tokens to deliver, the next token can be consumed.
C18_SynthNotAwaited ==
    (/\ isProcessing
     /\ stream # <<>>
     /\ \E s \in synths : s.turn = turn) => ENABLED ReadToken

\* frame k of an emission continues the frame before it
Contiguous(frames) ==
    \A k \in 1..Len(frames) :
        /\ frames[k].from < frames[k].to
        /\ k > 1 => /\ frames[k].from = frames[k - 1].to
                    /\ frames[k].turn = frames[1].turn
                    /\ frames[k].sent = frames[1].sent

\* C19: the audio-out frames of a sentence form one contiguous block in
\* byte order, and the blocks follow one another in the order in which the
\* sentences were generated: every emission either continues the sentence
\* of the last frame at the byte where that frame ended, or starts, at byte
\* 0, a later sentence, the synthesis of the last frame's sentence being over.
C19_FramesInOrder ==
    [][emitted' # <<>> =>
          LET f == emitted'[1]
          IN /\ Contiguous(emitted')
             /\ \/ /\ f.turn = lastFrame.turn
                   /\ f.sent = lastFrame.sent
                   /\ f.from = lastFrame.to
                \/ /\ f.from = 0
                   /\ \/ f.turn > lastFrame.turn
                      \/ f.turn = lastFrame.turn /\ f.sent > lastFrame.sent
                   /\ \A s \in synths : ~(s.turn = lastFrame.turn /\ s.sent = lastFrame.sent)]_vars

\* the second sentence of the second turn is being sent: its second frame
\* has just followed its first
C19_Witness ==
    /\ emitted # <<>>
    /\ emitted[1].turn = 2
    /\ emitted[1].sent = 2
    /\ emitted[1].from = targetChunkSize

\* the submissions the stream "Hi there. How are you? Great" has to give
Expected ==
    <<[text |-> SubSeq(Text, 1, 9), atEnd |-> FALSE],
      [text |-> SubSeq(Text, 11, 22), atEnd |-> FALSE],
      [text |-> SubSeq(Text, 24, 28), atEnd |-> TRUE]>>

\* C20: however "Hi there. How are you? Great" is split into tokens, the
\* submissions to synthesis are "Hi there." and "How are you?" before the
\* end of the stream and "Great" at its end, each exactly once.
C20_SentenceChunking ==
    /\ Len(submitted) <= Len(Expected)
    /\ submitted = SubSeq(Expected, 1, Len(submitted))
    /\ (pc = "idle" /\ turnOutcome = "ok") => submitted = Expected

\* the first n bytes of the deliveries from the k-th on, in order
RECURSIVE Raw(_, _, _)
Raw(chunks, k, n) ==
    IF k > Len(chunks) \/ n <= 0 THEN <<>>
    ELSE <<[chunk |-> k, from |-> 0, to |-> Min(chunks[k], n)]>>
         \o Raw(chunks, k + 1, n - Min(chunks[k], n))

\* the parts of a sequence of frames, one after the other
RECURSIVE Concat(_)
Concat(frames) ==
    IF frames = <<>> THEN <<>> ELSE Head(frames).parts \o Concat(Tail(frames))

\* the sum of the lengths of a sequence of frames
RECURSIVE FramesLen(_)
FramesLen(frames) ==
    IF frames = <<>> THEN 0 ELSE Head(frames).length + FramesLen(Tail(frames))

\* parts with every two that follow each other in one delivery joined
RECURSIVE Merge(_)
Merge(parts) ==
    IF Len(parts) <= 1 THEN parts
    ELSE LET p == parts[1]
             q == parts[2]
         IN IF p.chunk = q.chunk /\ p.to = q.from
            THEN Merge(<<[p EXCEPT !.to = q.to]>> \o Tail(Tail(parts)))
            ELSE <<p>> \o Merge(Tail(parts))

\* C21: whatever the sizes of the synthesis deliveries, every audio frame
\* sent has an even, non-zero length; a frame is targetChunkSize bytes long
\* unless it is the last of the sentence, sent at the end of the stream,
\* which may be shorter: at most targetChunkSize - 2 bytes.
C21_FramesAligned ==
    \A k \in 1..Len(tts.out) :
        LET n == tts.out[k].length
        IN /\ n > 0
           /\ n % 2 = 0
           /\ k < Len(tts.out) => n = targetChunkSize
           /\ n # targetChunkSize => /\ tts.phase = "done"
                                     /\ n <= targetChunkSize - 2

\* deliveries of 3, 9000 and 1 bytes: a full frame and a last one of 4204
C21_Witness ==
    /\ tts.phase = "done"
    /\ tts.chunks = <<3, 9000, 1>>
    /\ Len(tts.out) = 2
    /\ tts.out[2].length = 4204

\* C22: whatever the sizes of the synthesis deliveries, the frames sent,
\* one after the other, are the bytes delivered, in order, none twice and
\* none left out: while reading, all of them but fewer than targetChunkSize
\* at the end; at the end of the stream all of them when their number is
\* even, and all but the very last byte when it is odd.
C22_FramesAreDeliveries ==
    LET sentLen == FramesLen(tts.out)
    IN /\ \A k \in 1..Len(tts.out) : PartsLen(tts.out[k].parts) = tts.out[k].length
       /\ Merge(Concat(tts.out)) = Raw(tts.chunks, 1, sentLen)
       /\ tts.totalLength - sentLen < targetChunkSize
       /\ tts.phase = "done" => sentLen = tts.totalLength - (tts.totalLength % 2)

\* deliveries of 3 and 4800 bytes: the full frame spans both, and of the
\* three bytes left the last is dropped
C22_Witness ==
    /\ tts.phase = "done"
    /\ tts.chunks = <<3, 4800>>
    /\ Len(tts.out) = 2
    /\ Len(tts.out[1].parts) = 2
    /\ tts.out[2].parts = <<[chunk |-> 2, from |-> 4797, to |-> 4799]>>

\* C23: a transcription that is empty or only white space ends the turn in
\* silence: the step raises no transcript and no error event, leaves the
\* conversation history alone, sends no generation request, starts no
\* synthesis and sends no audio frame, the adapter stays connected and
\* isProcessing is cleared; the idle timer that fires next starts a turn.
C23_EmptyTranscriptSilent ==
    [][/\ (pc = "transcribe" /\ pc' = "idle" /\ turnOutcome' = "empty") =>
              /\ events' = {}
              /\ history' = history
              /\ chatRequest' = chatRequest
              /\ synths' = synths
              /\ submitted' = submitted
              /\ emitted' = <<>>
              /\ status' = status
              /\ ~isProcessing'
       /\ (pc = "idle" /\ turnOutcome = "empty" /\ timers' # timers) =>
              /\ isProcessing'
              /\ pc' = "transcribe"]_vars

\* the first turn ended on an empty transcription and the second has begun
C23_Witness ==
    /\ turnOutcome = "empty"
    /\ turn = 2
    /\ pc = "transcribe"
    /\ history = [k \in 1..8 |-> k]

\* C24: a non-success response from the transcription, the generation or
\* the synthesis request ends the turn and nothing else: the step raises an
\* error event, the adapter stays connected and isProcessing is cleared; the
\* idle timer that fires next starts a turn.
C24_FailureAbortsTurn ==
    [][/\ failed' \in {"transcribe", "generate", "synthesize"} =>
              /\ "error" \in events'
              /\ pc' = "idle"
              /\ ~isProcessing'
              /\ status' = status
       /\ (pc = "idle" /\ turnOutcome = "failed" /\ timers' # timers) =>
              /\ isProcessing'
              /\ pc' = "transcribe"]_vars

\* entries that follow one another without a gap
Consecutive(h) == \A k \in 1..(Len(h) - 1) : h[k + 1] = h[k] + 1

\* C25, as stated: the conversation history never holds more than
\* historyLimit entries, and no generation request carries more.
C25_HistoryAtMostLimit ==
    /\ Len(history) <= historyLimit
    /\ Len(chatRequest) <= historyLimit

\* C25: the conversation history is bounded and loses its oldest entries
\* first: it never holds more than historyLimit + 1 entries, the one above
\* the limit being the assistant's reply, appended after the cut; it is
\* always the most recent entries without a gap, and every generation
\* request carries the most recent entries, at most historyLimit of them.
C25_HistoryBounded ==
    /\ Len(history) <= historyLimit + 1
    /\ Consecutive(history)
    /\ Len(chatRequest) <= historyLimit
    /\ Consecutive(chatRequest)
    /\ pc = "chat" => chatRequest = history

\* the oldest entry has been evicted, and the reply of the second turn
\* makes the history eleven entries long
C25_Witness ==
    /\ Len(history) = historyLimit + 1
    /\ history[1] = 2
    /\ Len(chatRequest) = historyLimit

\* C26: mic-release ends the utterance for every active connected agent
\* that buffers audio: a mic-release handled while openai-stt is active,
\* connected and idle with audio buffered starts the processing of the
\* buffer in that step, without waiting for the idle timer.
C26_MicReleaseTriggers ==
    [][(/\ lastCtl' = "mic-release"
        /\ STT \in Range(activeAgents)
        /\ STT \in agents
        /\ status[STT] = "connected"
        /\ audioBuffer # <<>>
        /\ ~isProcessing) =>
             /\ isProcessing'
             /\ audioBuffer' = <<>>]_vars

\* C27: once the client connection has closed, no step sends an audio,
\* transcript, status or error message on it, whatever call of an adapter
\* was in flight at the close and completes afterwards.
C27_NothingAfterClose ==
    clientWs = "closed" => toClient = {}

\* the client closed while a sentence was being synthesized, and a step
\* after the close has raised audio frames of it
C27_Witness ==
    /\ clientWs = "closed"
    /\ emitted # <<>>
    /\ isProcessing

C29_PongOnPingTransport ==
    [][\A t \in keepAlive.timers : (t.age >= t.ping_ms /\ t \notin keepAlive'.timers) =>
           IF ws[EL] = t.conn /\ conns[t.conn].phase = "open"
           THEN /\ Len(keepAlive'.log) = Len(keepAlive.log) + 1
                /\ keepAlive'.log[Len(keepAlive'.log)].event_id = t.event_id
                /\ keepAlive'.log[Len(keepAlive'.log)].on = t.conn
                /\ keepAlive'.log[Len(keepAlive'.log)].waited >= t.ping_ms
           ELSE keepAlive'.log = keepAlive.log]_vars

\* the greatest of a non-empty set of numbers
Greatest(S) == CHOOSE x \in S : \A y \in S : y <= x

\* C30: the decomposed adapter has at most one idle timer pending, and it
\* is the one set by the most recent frame the adapter accepted: every
\* accepted frame has cleared the timer before it, so that the trigger comes
\* a full quiet period after the last frame and once for a burst of frames.
C30_OneIdleTimer ==
    /\ Cardinality(timeouts) <= 1
    /\ \A t \in timeouts : /\ t = silenceTimeout
                           /\ got[STT] # {}
                           /\ t = Greatest(got[STT])

\* a burst of two frames has been accepted and its one trigger has fired
C30_Witness ==
    /\ Cardinality(got[STT]) = 2
    /\ timeouts = {}
    /\ silenceTimeout = Greatest(got[STT])
    /\ isProcessing
    /\ audioBuffer = <<>>

\* the generation request of the turn in flight has been assembled
RequestAssembled == pc \in {"chat", "read", "awaitSynth", "awaitLast"}

\* C31: at most one turn of the decomposed adapter is in flight: a turn is
\* in flight exactly while isProcessing is set, every synthesis call under
\* way belongs to it, a trigger that fires meanwhile starts no turn, and
\* from the generation request to the end of the turn the conversation
\* history changes only by the reply the turn itself appends as it ends.
C31_OneTurnInFlight ==
    /\ [](/\ isProcessing <=> pc # "idle"
          /\ \A s \in synths : s.turn = turn /\ isProcessing
          /\ Cardinality(synths) <= 1)
    /\ [][/\ turn' # turn => /\ ~isProcessing
                             /\ turn' = turn + 1
                             /\ pc' = "transcribe"
          /\ (isProcessing /\ timers' # timers) =>
                 UNCHANGED <<pc, turn, isProcessing, history, chatRequest,
                             submitted, synths, stream, sentenceBuffer,
                             fullResponse, roles>>
          /\ RequestAssembled =>
                 \/ history' = history
                 \/ /\ pc' = "idle"
                    /\ turnOutcome' = "ok"
                    /\ history' = push(history)]_vars

\* two idle timers have fired, the second during the first turn, whose
\* generation stream is being read: it is still the first turn
C31_Witness ==
    /\ timers = MaxTurns - 2
    /\ turn = 1
    /\ isProcessing
    /\ pc = "read"
    /\ stream # <<>>

\* the tokens of a stream, one after the other
RECURSIVE Flatten(_)
Flatten(tokens) ==
    IF tokens = <<>> THEN <<>> ELSE Head(tokens) \o Flatten(Tail(tokens))

\* the place of a kind of entry in the order of a turn
Rank(e) ==
    CASE e = "transcript-user" -> 1
      [] e = "push-user" -> 2
      [] e = "request" -> 3
      [] e = "audio" -> 4
      [] e = "push-assistant" -> 5
      [] e = "transcript-assistant" -> 6
      [] OTHER -> 7

\* the number of entries e in the log l
Count(l, e) == Cardinality({k \in DOMAIN l : l[k] = e})

C33_StatusesMirrorAdapters ==
    /\ [](\A a \in AgentType :
              /\ agentStatuses[a] = status[a]
              /\ a \notin agents => agentStatuses[a] = "disconnected")
    /\ [][\A a \in AgentType :
              agentStatuses'[a] # agentStatuses[a] =>
                  /\ a \in agents'
                  /\ status'[a] # status[a]
                  /\ agentStatuses'[a] = status'[a]]_vars

\* the client is gone and its adapters disconnected: one that was connected,
\* one whose connect had failed; the third was never created
C33_Witness ==
    /\ clientWs = "closed"
    /\ Cardinality(agents) = 2
    /\ \A a \in agents : status[a] = "disconnected" /\ teardown[a] > 0
    /\ \E i, j \in DOMAIN conns : /\ conns[i].agent # conns[j].agent
                                  /\ conns[i].promise = "resolved"
                                  /\ conns[j].promise = "rejected"

\* C34: for the realtime and the third-party adapter, status connected means
\* that the adapter holds an open transport; and a close or error event of
\* a transport that disconnect() has closed, arriving when the adapter has
\* a new transport, changes neither the adapter's status nor its reference
\* to the new transport.
C34_ConnectedHoldsTransport ==
    /\ [](\A a \in {V2V, EL} :
              status[a] = "connected" => /\ ws[a] # 0
                                         /\ conns[ws[a]].phase = "open")
    /\ [][\A i \in DOMAIN conns :
              LET a == conns[i].agent
              IN (/\ a \in {V2V, EL}
                  /\ conns[i].phase \in {"closing", "aborted", "errored"}
                  /\ conns'[i].phase \in {"closed", "errored"}
                  /\ conns'[i].phase # conns[i].phase
                  /\ ws[a] \notin {0, i}) =>
                      /\ status'[a] = status[a]
                      /\ ws'[a] = ws[a]]_vars

\* C35: every frame the connected decomposed adapter has buffered is in the
\* end put into a transcription request, unless the adapter is disconnected
\* first: also a frame that arrived during a turn, with no frame after it.
C35_FramesTranscribed ==
    \A f \in 1..MaxWork :
        (f \in Range(audioBuffer)) ~>
            (f \in transcribed \/ status[STT] # "connected")

\* the routing states a control message of the given action may lead to
\* from the present one, whatever handlers are in flight: its transition
\* for every payload it may carry
Transitions(action) ==
    LET here == <<mode, activeAgents, primaryAgent, sampleRate>>
    IN CASE action = "swap" ->
              {here} \cup {<<mode, IF mode = "dual" THEN activeAgents ELSE <<a>>,
                             a, IF a = EL THEN 16000 ELSE 24000>> : a \in AgentType}
         [] action = "toggle-dual" ->
              {<<"dual", <<V2V, EL>>, primaryAgent, sampleRate>>,
               <<"single", <<primaryAgent>>, primaryAgent, sampleRate>>}
         [] action = "select" ->
              {here} \cup {<<"single", <<a>>, a, sampleRate>> : a \in AgentType}
         [] OTHER -> {here}

\* C36: the change a control message makes to mode, primaryAgent,
\* activeAgents and sampleRate is made in the step that handles the message,
\* before its handler suspends, and is the message's transition applied to
\* the routing state as the message finds it, whatever handlers are in
\* flight; no other step, the continuation of a suspended handler included,
\* changes the routing state.  The routing state is therefore that of the
\* messages' transitions applied one after another in arrival order.
C36_RoutingAtomic ==
    [][IF msgCount' # msgCount /\ lastCtl' # "none"
       THEN <<mode', activeAgents', primaryAgent', sampleRate'>>
                \in Transitions(lastCtl')
       ELSE UNCHANGED <<mode, activeAgents, primaryAgent, sampleRate>>]_vars

\* a toggle-dual handler that suspended on its first connect has run on to
\* its second, after a select had made the mode single: the routing state
\* is that of the select
C36_Witness ==
    /\ mode = "single"
    /\ activeAgents = <<STT>>
    /\ primaryAgent = STT
    /\ \E h \in handlers : h.kind = "toggle-dual" /\ h.at = 2
    /\ status[V2V] = "connected"

\* C37: while the client's connection is open, a step that changes an
\* adapter's status sends a status message, a control message whose handler
\* does not suspend sends one in its step and one whose handler suspends
\* when the handler runs to its end; and whenever no handler is in flight
\* the last status message sent carries the session state as it is.
C37_ClientViewConverges ==
    /\ []((clientWs = "open" /\ handlers = {}) => lastStatus = Current)
    /\ [][clientWs' = "open" =>
              /\ agentStatuses' # agentStatuses => /\ "status" \in toClient'
                                                   /\ lastStatus' = Current'
              /\ (lastCtl' # "none" /\ handlers' \subseteq handlers) =>
                     "status" \in toClient'
              /\ (handlers' # handlers /\ handlers' \subseteq handlers) =>
                     "status" \in toClient']_vars

\* a handler that suspended on its connect was overtaken by a message that
\* changed the primary agent; the connect has failed and the handler has
\* run to its end: the client has been told of both
C37_Witness ==
    /\ clientWs = "open"
    /\ handlers = {}
    /\ lastCtl = "none"
    /\ "status" \in toClient
    /\ Len(conns) = 1
    /\ conns[1].promise = "rejected"
    /\ \E a \in AgentType : /\ agentStatuses[a] = "error"
                            /\ conns[1].agent = a
                            /\ primaryAgent # a
                            /\ lastStatus.primaryAgent = primaryAgent
                            /\ lastStatus.agentStatuses[a] = "error"

\* C38: the conversation history alternates roles: no two entries that
\* follow one another have the same role, whatever turns came before,
\* those ended by an upstream error included.
C38_RolesAlternate ==
    \A k \in 1..(Len(roles) - 1) : roles[k] # roles[k + 1]

\* a text without the white space at its start
RECURSIVE LStrip(_)
LStrip(t) ==
    IF t = <<>> THEN t
    ELSE IF Head(t) \in {" ", "\n", "\t"} THEN LStrip(Tail(t))
    ELSE t

\* what is left of the text t when the submissions subs have been taken
\* from its start one after the other, white space between them skipped;
\* <<"no">> when a submission is not what the text goes on with
RECURSIVE Rest(_, _)
Rest(subs, t) ==
    IF subs = <<>> THEN t
    ELSE LET u == LStrip(t)
             x == Head(subs)
         IN IF Len(x) <= Len(u) /\ SubSeq(u, 1, Len(x)) = x
            THEN Rest(Tail(subs), SubSeq(u, Len(x) + 1, Len(u)))
            ELSE <<"no">>

\* C39: sentence chunking conserves the text: the submissions of the turn,
\* in their order, are the response accumulated so far with nothing left
\* out and nothing twice, but for white space where one submission ends and
\* the next begins and for the text still waiting in sentenceBuffer; at the
\* end of the stream nothing waits; and no submission is empty or begins or
\* ends with white space.
C39_ChunkingConservesText ==
    LET texts == [k \in DOMAIN submitted |-> submitted[k].text]
        rest == Rest(texts, fullResponse)
    IN /\ \A k \in DOMAIN texts :
              /\ texts[k] # <<>>
              /\ LStrip(texts[k]) = texts[k]
              /\ texts[k][Len(texts[k])] \notin {" ", "\n", "\t"}
       /\ pc \in {"read", "awaitSynth"} =>
              /\ rest # <<"no">>
              /\ LStrip(rest) = LStrip(sentenceBuffer)
       /\ (pc = "awaitLast" \/ (pc = "idle" /\ turnOutcome = "ok" /\ turn > 0)) =>
              /\ rest # <<"no">>
              /\ LStrip(rest) = <<>>
              /\ fullResponse = Flatten(streamAll)

\* the stream came as "Hi there. How" and " are you? Great": two
\* submissions, the white space between them dropped, and the turn is over
C39_Witness ==
    /\ pc = "idle"
    /\ turnOutcome = "ok"
    /\ Len(submitted) = 2
    /\ submitted[1].text = SubSeq(Text, 1, 13)
    /\ submitted[2].text = SubSeq(Text, 15, 28)
    /\ fullResponse = Text

\* the step calls connect() on the adapter of type a and the call goes
\* beyond its guard: an attempt goes to the network, or, for elevenlabs
\* without an agent id, the call fails at once
Attempted(a) ==
    \/ /\ Len(conns') > Len(conns)
       /\ \E i \in (Len(conns) + 1)..Len(conns') : conns'[i].agent = a
    \/ a = EL /\ ~agentId /\ errors'[EL] > 0

\* C40: a swap that makes a the primary agent, and a toggle-dual that turns
\* dual mode on for the first agent of the pair, leave the adapter created;
\* when its status was disconnected or error (or it had not been created)
\* the step initiates a connect attempt, and when it was connecting or
\* connected the step leaves its status, its transport and the attempts
\* under way as they were.
C40_SwapConnects ==
    [][\A a \in AgentType :
          (\/ lastCtl' = "swap" /\ primaryAgent' = a /\ primaryAgent # a
           \/ lastCtl' = "toggle-dual" /\ mode' = "dual" /\ a = DualAgents[1]) =>
              /\ a \in agents'
              /\ status[a] \in {"disconnected", "error"} => Attempted(a)
              /\ status[a] \in {"connecting", "connected"} =>
                     /\ ~Attempted(a)
                     /\ status'[a] = status[a]
                     /\ ws'[a] = ws[a]]_vars

====
